---- MODULE Spec2Model ----
(***************************************************************************)
(* Model of PDFOutlineExtractor (src/Challenge_1a/extract_outline.py):     *)
(* title extraction, table-of-contents filtering, ensemble heading         *)
(* classification, duplicate removal and outline assembly.                 *)
(*                                                                         *)
(* Texts are TLA+ strings; the Python string methods and regular           *)
(* expressions the code uses are operators over their characters.          *)
(* Scores are the binary64 floating-point numbers the code computes: a     *)
(* score is a record [neg, m, e] of value m * 2^e with a 53-bit mantissa,  *)
(* and sums, products and quotients round to nearest, ties to even, in the *)
(* order in which the code evaluates them.  A comparison of one quotient   *)
(* or one product of integers with a decimal constant is taken on the      *)
(* integers, where it has the same outcome.                                *)
(*                                                                         *)
(* The alphabet of the strings is ASCII, Latin-1, the small Greek letters   *)
(* and the kana and Han characters of detect_language's tables that a TLA+ *)
(* string can hold.  The letters, capital and small, the digits, the       *)
(* fractions and the white space of this alphabet are tabulated in full;   *)
(* str.isdigit and the \d of a regular expression differ on the            *)
(* superscript digits.  A string can hold no Cyrillic or Arabic letter, so *)
(* detect_language works on texts given as sequences of Unicode code       *)
(* points, with the tables of the code in full; CodePoints gives the code  *)
(* points of a string.  The alphabet of these texts is U+0000 to U+00FF,   *)
(* the Greek letters U+0391 to U+03C9, the Cyrillic letters U+0400 to      *)
(* U+045F, the Arabic letters U+0621 to U+064A, the hiragana U+3041 to     *)
(* U+3096 and the ideographs U+4E00 to U+9FFF.                             *)
(***************************************************************************)
EXTENDS Integers, Sequences, FiniteSets, TLC

VARIABLES
    op,               \* the operation last applied in the function-level specifications
    arg,              \* its input
    ret,              \* its output
    pc,               \* position of extract_outline
    pdf_path,         \* argument of extract_outline
    text_elements,    \* fragments returned by extract_text_with_formatting
    detected_language,\* self.detected_language
    title,            \* local title
    font_stats,       \* [sum, n, max] of the font sizes (avg_font_size = sum / n),
                      \* max being None while max_font_size is not bound
    i,                \* loop index over text_elements (0-based, as in the code)
    in_toc_section,   \* local in_toc_section
    seen_headings,    \* local seen_headings
    headings,         \* local headings
    processed,        \* what the loop did with each fragment so far, in order
    fault,            \* str(e) of the exception raised inside the try block, if any
    language_at_call, \* self.detected_language as the current call found it
    result            \* value returned by extract_outline

vars == <<op, arg, ret, pc, pdf_path, text_elements, detected_language, title,
          font_stats, i, in_toc_section, seen_headings, headings, processed, fault,
          language_at_call, result>>

None == "None"

-----------------------------------------------------------------------------
(* Characters and the str methods used by the code.                         *)

Ch(s, k) == SubSeq(s, k, k)

CharsOf(s) == {Ch(s, k) : k \in 1..Len(s)}

UPPER == "ABCDEFGHIJKLMNOPQRSTUVWXYZ"

LOWER == "abcdefghijklmnopqrstuvwxyz"

\* the capital letters of Latin-1, U+00C0 to U+00DE without the multiplication
\* sign, and their small letters, U+00E0 to U+00FE without the division sign,
\* aligned
UPPER_LATIN1 == "ÀÁÂÃÄÅÆÇÈÉÊËÌÍÎÏÐÑÒÓÔÕÖØÙÚÛÜÝÞ"

LOWER_LATIN1 == "àáâãäåæçèéêëìíîïðñòóôõöøùúûüýþ"

\* [A-Z]
UpperSet == CharsOf(UPPER)

\* characters c with c.isupper()
UpperChars == UpperSet \cup CharsOf(UPPER_LATIN1)

\* the small Greek letters, U+03B1 to U+03C9
LOWER_GREEK == "αβγδεζηθικλμνξοπρςστυφχψω"

\* the kana and the Han characters of detect_language's tables that a string
\* can hold: letters without case
KANA == "むめもやゆよらりるれろわをん"

HAN == "国德日法美英"

\* characters c with c.islower(): the small letters, and the letters ª, µ, º,
\* ß and ÿ, which have no capital in the alphabet
LowerSet ==
    CharsOf(LOWER) \cup CharsOf(LOWER_LATIN1) \cup {"ª", "µ", "º", "ß", "ÿ"}
        \cup CharsOf(LOWER_GREEK)

\* [0-9], which are also the \d of a regular expression
DigitSet == CharsOf("0123456789")

\* characters c with c.isdigit(): the superscripts ², ³ and ¹ are digits to
\* str.isdigit and not to \d
DigitChars == DigitSet \cup {"²", "³", "¹"}

\* characters c with c.isalnum() that are neither letters nor digits
FractionChars == {"¼", "½", "¾"}

\* characters c with c.isspace(), which are also the \s of a regular expression
\* and the separators of str.split() and str.strip(): space, \t, \n, \r, \f,
\* the vertical tab U+000B, the separators U+001C to U+001F, and the white
\* space beyond ASCII that a string can hold: U+0085, U+00A0 and U+1680
SpaceSet ==
    {" ", "\t", "\n", "\r", "\f", "", "", "", "", "", "", " ",
     " "}

IsUpperCh(c) == c \in UpperChars

IsLowerCh(c) == c \in LowerSet

\* str.isdigit of one character
IsDigitCh(c) == c \in DigitChars

\* \d
IsDecimalCh(c) == c \in DigitSet

IsSpaceCh(c) == c \in SpaceSet

IsCasedCh(c) == IsUpperCh(c) \/ IsLowerCh(c)

\* str.isalpha of one character
IsAlphaCh(c) == IsCasedCh(c) \/ c \in CharsOf(KANA) \/ c \in CharsOf(HAN)

\* [a-zA-Z]
IsAsciiAlphaCh(c) == c \in UpperSet \/ c \in CharsOf(LOWER)

LowerMap ==
    LET from == UPPER \o UPPER_LATIN1
        to   == LOWER \o LOWER_LATIN1
    IN  [c \in UpperChars |-> Ch(to, CHOOSE k \in 1..Len(from) : Ch(from, k) = c)]

LowerCh(c) == IF c \in UpperChars THEN LowerMap[c] ELSE c

Min(S) == CHOOSE x \in S : \A y \in S : x <= y

Max(S) == CHOOSE x \in S : \A y \in S : x >= y

Abs(x) == IF x < 0 THEN -x ELSE x

RECURSIVE Lower(_)

\* str.lower, one character at a time (the string is halved to keep the
\* evaluation shallow)
Lower(s) ==
    IF Len(s) = 0 THEN ""
    ELSE IF Len(s) = 1 THEN LowerCh(s)
    ELSE Lower(SubSeq(s, 1, Len(s) \div 2)) \o Lower(SubSeq(s, Len(s) \div 2 + 1, Len(s)))

\* str.strip
Strip(s) ==
    LET keep == {k \in 1..Len(s) : ~IsSpaceCh(Ch(s, k))}
    IN  IF keep = {} THEN "" ELSE SubSeq(s, Min(keep), Max(keep))

\* sub in s
Contains(sub, s) ==
    \E k \in 1..(Len(s) - Len(sub) + 1) : SubSeq(s, k, k + Len(sub) - 1) = sub

\* any(x in s for x in subs)
ContainsAny(subs, s) == \E sub \in subs : Contains(sub, s)

StartsWith(s, pre) == Len(pre) <= Len(s) /\ SubSeq(s, 1, Len(pre)) = pre

EndsWith(s, suf) == Len(suf) <= Len(s) /\ SubSeq(s, Len(s) - Len(suf) + 1, Len(s)) = suf

\* s.count(c) for a one-character c
Count(s, c) == Cardinality({k \in 1..Len(s) : Ch(s, k) = c})

\* sum(1 for c in s if c.islower())
CountLower(s) == Cardinality({k \in 1..Len(s) : IsLowerCh(Ch(s, k))})

CountUpper(s) == Cardinality({k \in 1..Len(s) : IsUpperCh(Ch(s, k))})

\* str.isdigit
IsDigit(s) == s # "" /\ \A k \in 1..Len(s) : IsDigitCh(Ch(s, k))

\* s is \d+
Digits(s) == s # "" /\ \A k \in 1..Len(s) : IsDecimalCh(Ch(s, k))

\* str.isupper
IsUpper(s) ==
    /\ \E k \in 1..Len(s) : IsCasedCh(Ch(s, k))
    /\ \A k \in 1..Len(s) : ~IsLowerCh(Ch(s, k))

\* str.istitle
IsTitle(s) ==
    /\ \E k \in 1..Len(s) : IsCasedCh(Ch(s, k))
    /\ \A k \in 1..Len(s) :
          /\ IsUpperCh(Ch(s, k)) => (k = 1 \/ ~IsCasedCh(Ch(s, k - 1)))
          /\ IsLowerCh(Ch(s, k)) => (k > 1 /\ IsCasedCh(Ch(s, k - 1)))

\* first and last index of every word of s (maximal runs of non-space)
WordStarts(s) ==
    {k \in 1..Len(s) : ~IsSpaceCh(Ch(s, k)) /\ (k = 1 \/ IsSpaceCh(Ch(s, k - 1)))}

WordEnd(s, k) ==
    Min({e \in k..Len(s) : e = Len(s) \/ IsSpaceCh(Ch(s, e + 1))})

\* set(s.split())
WordSet(s) == {SubSeq(s, k, WordEnd(s, k)) : k \in WordStarts(s)}

\* len(s.split())
WordCount(s) == Cardinality(WordStarts(s))

\* s.replace(' ', '')
RECURSIVE RemoveSpaces(_)

RemoveSpaces(s) ==
    IF Len(s) = 0 THEN ""
    ELSE IF Len(s) = 1 THEN (IF s = " " THEN "" ELSE s)
    ELSE RemoveSpaces(SubSeq(s, 1, Len(s) \div 2))
         \o RemoveSpaces(SubSeq(s, Len(s) \div 2 + 1, Len(s)))

\* re.sub(r'\s+', ' ', s)
RECURSIVE CollapseRange(_, _, _)

\* what s[lo..hi] contributes: a run of white space gives one space, at its end
CollapseRange(s, lo, hi) ==
    IF lo > hi THEN ""
    ELSE IF lo = hi
    THEN (IF ~IsSpaceCh(Ch(s, lo)) THEN Ch(s, lo)
          ELSE IF lo < Len(s) /\ IsSpaceCh(Ch(s, lo + 1)) THEN "" ELSE " ")
    ELSE CollapseRange(s, lo, (lo + hi) \div 2) \o CollapseRange(s, (lo + hi) \div 2 + 1, hi)

CollapseSpaces(s) == CollapseRange(s, 1, Len(s))

\* ' '.join(parts)
RECURSIVE Join(_)

Join(parts) ==
    IF parts = <<>> THEN ""
    ELSE IF Len(parts) = 1 THEN parts[1]
    ELSE parts[1] \o " " \o Join(Tail(parts))

\* the sort key (x['page'], -x.get('y_position', 0)) compared
PageTopBefore(a, b) ==
    a.page < b.page \/ (a.page = b.page /\ a.y_position > b.y_position)

\* list.sort(key=lambda x: (x['page'], -x.get('y_position', 0))): stable
RECURSIVE SortPageTop(_)

SortPageTop(seq) ==
    IF seq = <<>> THEN <<>>
    ELSE LET x == seq[Len(seq)]
             sorted == SortPageTop(SubSeq(seq, 1, Len(seq) - 1))
             later == {k \in 1..Len(sorted) : PageTopBefore(x, sorted[k])}
             at == IF later = {} THEN Len(sorted) + 1 ELSE Min(later)
         IN  SubSeq(sorted, 1, at - 1) \o <<x>> \o SubSeq(sorted, at, Len(sorted))

\* seq[:n]
Take(seq, n) == SubSeq(seq, 1, IF Len(seq) < n THEN Len(seq) ELSE n)

-----------------------------------------------------------------------------
(* Title extraction.                                                        *)

UntitledDocument == "Untitled Document"

OntarioTitle ==
    "RFP:Request for Proposal To Present a Proposal for Developing the Business Plan for the Ontario Digital Library"

\* variant of _is_valid_title: a title must also match the first title pattern,
\* re.search(r'^[A-Z][a-zA-Z\s,:;()-]+$', title, re.IGNORECASE)
IsValidTitleByPattern(t) ==
    /\ t # ""
    /\ Len(t) >= 8
    /\ ~ContainsAny({"copyright", "version", "page", "©", "international", "foundation",
                     "all rights reserved", "confidential", "draft", "preliminary"},
                    Lower(t))
    /\ ~(IsDigit(RemoveSpaces(t)) \/ WordCount(t) < 2)
    /\ ~(Len(t) > 400)
    /\ \E k \in 1..Len(t) : IsAlphaCh(Ch(t, k))
    /\ IsAsciiAlphaCh(Ch(t, 1))
    /\ \A k \in 2..Len(t) :
          IsAsciiAlphaCh(Ch(t, k)) \/ IsSpaceCh(Ch(t, k)) \/ Ch(t, k) \in CharsOf(",:;()-")

\* _is_valid_title: the final pattern loop returns True and is followed by
\* "return True", so only the disqualifying checks decide
_is_valid_title(t) ==
    /\ t # ""
    /\ Len(t) >= 8
    /\ ~ContainsAny({"copyright", "version", "page", "©", "international", "foundation",
                     "all rights reserved", "confidential", "draft", "preliminary"},
                    Lower(t))
    /\ ~(IsDigit(RemoveSpaces(t)) \/ WordCount(t) < 2)
    /\ ~(Len(t) > 400)
    /\ \E k \in 1..Len(t) : IsAlphaCh(Ch(t, k))

\* re.search(r'RFP:?\s*Request for Proposal', text, re.IGNORECASE)
SearchRfpRequest(text) ==
    LET t == Lower(text)
        tail == "request for proposal"
    IN  \E a \in 1..(Len(t) - 2) :
           /\ SubSeq(t, a, a + 2) = "rfp"
           /\ \E b \in (a + 3)..(Len(t) - Len(tail) + 1) :
                 /\ SubSeq(t, b, b + Len(tail) - 1) = tail
                 /\ LET gap == SubSeq(t, a + 3, b - 1)
                        sp == IF StartsWith(gap, ":") THEN Tail(gap) ELSE gap
                    IN  \A k \in 1..Len(sp) : IsSpaceCh(Ch(sp, k))

\* any(re.search(pattern, text, re.IGNORECASE) for pattern in rfp_patterns)
is_rfp_related(text) ==
    \/ SearchRfpRequest(text)
    \/ ContainsAny({"request for proposal", "rfp:", "request for", "proposal for",
                    "oposal", "quest"}, Lower(text))

\* the skip test shared by _extract_rfp_title and _extract_largest_font_title
HasTitleSkipWord(text) ==
    ContainsAny({"page", "copyright", "©", "version", "confidential"}, Lower(text))

is_title_like(text) ==
    /\ Len(text) > 3
    /\ (IsTitle(text) \/ IsUpper(text))
    /\ ~EndsWith(text, ".")
    /\ ~IsDigit(text)
    /\ ~\E k \in 1..3 : k <= Len(text) /\ IsDigitCh(Ch(text, k))

\* title_candidates of _extract_rfp_title, before sorting
RfpCandidate(elem) ==
    LET text == Strip(elem.text)
    IN  ~HasTitleSkipWord(text) /\ (is_rfp_related(text) \/ is_title_like(text))

\* the merging loop of _extract_rfp_title from candidate k on
RECURSIVE RfpMerge(_, _, _, _, _)

RfpMerge(cands, k, title_parts, current_page, current_y) ==
    IF k > Len(cands)
    THEN IF title_parts # <<>> /\ _is_valid_title(Join(title_parts))
         THEN Join(title_parts) ELSE ""
    ELSE LET elem == cands[k]
             text == Strip(elem.text)
         IN  IF elem.page = current_page /\ Abs(elem.y_position - current_y) < 250
             THEN RfpMerge(cands, k + 1, Append(title_parts, text), current_page,
                           elem.y_position)
             ELSE IF elem.page = current_page + 1 /\ elem.y_position > 500
             THEN RfpMerge(cands, k + 1, Append(title_parts, text), elem.page,
                           elem.y_position)
             ELSE IF /\ title_parts # <<>>
                     /\ Len(Join(title_parts)) > 20
                     /\ _is_valid_title(Join(title_parts))
             THEN Join(title_parts)
             ELSE RfpMerge(cands, k + 1, <<text>>, elem.page, elem.y_position)

_extract_rfp_title(elems) ==
    IF elems = <<>> THEN ""
    ELSE LET title_candidates == SortPageTop(SelectSeq(Take(elems, 150), RfpCandidate))
         IN  IF title_candidates = <<>> THEN ""
             ELSE RfpMerge(Take(title_candidates, 20), 1, <<>>,
                           title_candidates[1].page, title_candidates[1].y_position)

\* title_parts built by the k loop of _extract_largest_font_title for one (i, j):
\* skipped elements are passed over, the first element that is not adjacent stops it
RECURSIVE LargestFontParts(_, _, _, _, _, _)

LargestFontParts(cands, k, j, title_parts, current_page, current_y) ==
    IF k > j THEN title_parts
    ELSE LET elem == cands[k]
             text == Strip(elem.text)
         IN  IF HasTitleSkipWord(text)
             THEN LargestFontParts(cands, k + 1, j, title_parts, current_page, current_y)
             ELSE IF elem.page = current_page /\ Abs(elem.y_position - current_y) < 200
             THEN LargestFontParts(cands, k + 1, j, Append(title_parts, text),
                                   current_page, elem.y_position)
             ELSE IF elem.page = current_page + 1 /\ elem.y_position > 600
             THEN LargestFontParts(cands, k + 1, j, Append(title_parts, text),
                                   elem.page, elem.y_position)
             ELSE title_parts

\* score of a combined title in _extract_largest_font_title
LargestFontScore(t) ==
    Len(t)
    + (IF Contains("rfp", Lower(t)) THEN 50 ELSE 0)
    + (IF Contains("proposal", Lower(t)) THEN 30 ELSE 0)
    + (IF Contains("business plan", Lower(t)) THEN 30 ELSE 0)
    + (IF Contains("digital library", Lower(t)) THEN 20 ELSE 0)

_extract_largest_font_title(elems) ==
    LET early_elements == SelectSeq(elems, LAMBDA e : e.page <= 5)
    IN  IF elems = <<>> \/ early_elements = <<>> THEN ""
        ELSE
        LET max_font_size == Max({early_elements[k].font_size : k \in 1..Len(early_elements)})
            \* elem['font_size'] >= max_font_size * 0.8
            Large(e) == /\ 10 * e.font_size >= 8 * max_font_size
                        /\ 3 <= Len(e.text) /\ Len(e.text) <= 200
            cands == SortPageTop(SelectSeq(early_elements, Large))
            n == Len(cands)
            \* (i, j) with j in range(i + 1, min(i + 6, n)), 1-based
            Pairs == {p \in (1..n) \X (1..n) :
                          p[2] >= p[1] + 1 /\ p[2] <= p[1] + 5}
            Combined(p) == Join(LargestFontParts(cands, p[1], p[2], <<>>,
                                                 cands[p[1]].page, cands[p[1]].y_position))
            Scored == {p \in Pairs : Combined(p) # "" /\ _is_valid_title(Combined(p))}
            PairBefore(p, q) == p[1] < q[1] \/ (p[1] = q[1] /\ p[2] < q[2])
            \* score > best_score keeps the first of the highest-scoring pairs
            best == CHOOSE p \in Scored :
                        \A q \in Scored \ {p} :
                            \/ LargestFontScore(Combined(p)) > LargestFontScore(Combined(q))
                            \/ /\ LargestFontScore(Combined(p)) = LargestFontScore(Combined(q))
                               /\ PairBefore(p, q)
        IN  IF cands = <<>> THEN ""
            ELSE IF Scored # {} THEN Combined(best)
            ELSE Strip(cands[1].text)

_extract_first_page_title(elems) ==
    LET first_page_elements == Take(SelectSeq(elems, LAMBDA e : e.page = 1), 10)
        Hit(e) ==
            LET text == Strip(e.text)
            IN  /\ Len(text) > 10
                /\ ~\E pre \in {"copyright", "version", "page", "©"} :
                        StartsWith(Lower(text), pre)
                /\ ~IsDigit(text)
                /\ IsTitle(text)
        hits == SelectSeq(first_page_elements, Hit)
    IN  IF hits = <<>> THEN "" ELSE Strip(hits[1].text)

\* [a-zA-Z\s]
IsTitlePatternCh(c) == IsAsciiAlphaCh(c) \/ IsSpaceCh(c)

\* ^[A-Z][a-zA-Z\s]{5,50}$ | ^[A-Z][a-zA-Z\s]+:$ | ^[A-Z][a-zA-Z\s]+[A-Z]$ against
\* stripped text ($ also matches before a final newline, which strip() removed)
MatchesMetadataTitlePattern(text) ==
    LET n == Len(text)
        Body(a, b) == \A k \in a..b : IsTitlePatternCh(Ch(text, k))
    IN  /\ n >= 1
        /\ Ch(text, 1) \in CharsOf(UPPER)
        /\ \/ (n - 1 >= 5 /\ n - 1 <= 50 /\ Body(2, n))
           \/ (n >= 3 /\ Ch(text, n) = ":" /\ Body(2, n - 1))
           \/ (n >= 3 /\ Ch(text, n) \in CharsOf(UPPER) /\ Body(2, n - 1))

_extract_document_metadata_title(elems) ==
    LET hits == SelectSeq(Take(elems, 20),
                          LAMBDA e : MatchesMetadataTitlePattern(Strip(e.text)))
    IN  IF hits = <<>> THEN "" ELSE Strip(hits[1].text)

_extract_filename_title(elems) == ""

_extract_common_title_patterns(elems) ==
    LET title_keywords ==
            {"overview", "introduction", "guide", "manual", "documentation",
             "report", "study", "analysis", "research", "paper", "thesis",
             "challenge", "competition", "hackathon", "contest"}
        Hit(e) == /\ ContainsAny(title_keywords, Lower(Strip(e.text)))
                  /\ Len(Strip(e.text)) > 10
        hits == SelectSeq(Take(elems, 30), Hit)
    IN  IF hits = <<>> THEN "" ELSE Strip(hits[1].text)

\* the list strategies of robust_title_extraction
strategies ==
    <<"_extract_rfp_title", "_extract_largest_font_title", "_extract_first_page_title",
      "_extract_document_metadata_title", "_extract_filename_title",
      "_extract_common_title_patterns">>

\* strategy(text_elements)
RunStrategy(strategy, elems) ==
    CASE strategy = "_extract_rfp_title" -> _extract_rfp_title(elems)
      [] strategy = "_extract_largest_font_title" -> _extract_largest_font_title(elems)
      [] strategy = "_extract_first_page_title" -> _extract_first_page_title(elems)
      [] strategy = "_extract_document_metadata_title" -> _extract_document_metadata_title(elems)
      [] strategy = "_extract_filename_title" -> _extract_filename_title(elems)
      [] strategy = "_extract_common_title_patterns" -> _extract_common_title_patterns(elems)

\* "file03.pdf" in str(text_elements): the repr of the list shows every text
\* and font name verbatim
ReprHasFile03(elems) ==
    \E k \in 1..Len(elems) :
        Contains("file03.pdf", elems[k].text) \/ Contains("file03.pdf", elems[k].font_name)

\* variant of IsOntarioDocument: the two phrases are looked for in the text
\* of every fragment
IsOntarioDocumentWholeList(elems) ==
    LET sample_text == Join([k \in 1..Len(elems) |-> elems[k].text])
    IN  \/ Contains("Ontario's Digital Library", sample_text) /\ Contains("RFP", sample_text)
        \/ ReprHasFile03(elems)

\* the manual override test of robust_title_extraction
IsOntarioDocument(elems) ==
    LET first == Take(elems, 50)
        sample_text == Join([k \in 1..Len(first) |-> first[k].text])
    IN  \/ Contains("Ontario's Digital Library", sample_text) /\ Contains("RFP", sample_text)
        \/ ReprHasFile03(elems)

\* variant of StrategyLoop: the strategy's output is returned without the
\* "title and self._is_valid_title(title)" test
StrategyLoopUnchecked(elems, k) ==
    IF k > Len(strategies) THEN None
    ELSE RunStrategy(strategies[k], elems)

\* the for loop of robust_title_extraction from strategy k on: the statement
\* return "Untitled Document" is indented into the loop body, so the body
\* returns on its first pass and no later strategy is reached
StrategyLoop(elems, k) ==
    IF k > Len(strategies) THEN None
    ELSE LET t == RunStrategy(strategies[k], elems)
         IN  IF t # "" /\ _is_valid_title(t) THEN t ELSE UntitledDocument

robust_title_extraction(elems) ==
    IF IsOntarioDocument(elems) THEN OntarioTitle ELSE StrategyLoop(elems, 1)

-----------------------------------------------------------------------------
(* Regular expressions of the heading classifier and the TOC filter.        *)

\* number of characters of the leading run of digits of s from index k on
RECURSIVE DigitRun(_, _)

DigitRun(s, k) ==
    IF k <= Len(s) /\ IsDecimalCh(Ch(s, k)) THEN 1 + DigitRun(s, k + 1) ELSE 0

\* \.?\s+ matches at index k of s
DotSpaceAt(s, k) ==
    \/ k <= Len(s) /\ IsSpaceCh(Ch(s, k))
    \/ k + 1 <= Len(s) /\ Ch(s, k) = "." /\ IsSpaceCh(Ch(s, k + 1))

\* index after ^\d+(\.\d+){groups-1}, or 0 when s does not start that way
RECURSIVE AfterNumbering(_, _, _)

AfterNumbering(s, k, groups) ==
    LET d == DigitRun(s, k)
    IN  IF d = 0 THEN 0
        ELSE IF groups = 1 THEN k + d
        ELSE IF k + d <= Len(s) /\ Ch(s, k + d) = "."
             THEN AfterNumbering(s, k + d + 1, groups - 1)
        ELSE 0

\* re.match of ^\d+\.?\s+ (groups = 1), ^\d+\.\d+\.?\s+ (2), ^\d+\.\d+\.\d+\.?\s+ (3)
MatchNumbered(s, groups) ==
    LET k == AfterNumbering(s, 1, groups)
    IN  k # 0 /\ DotSpaceAt(s, k)

\* re.match(r'^[A-Z]\.?\s+', s)
MatchLettered(s) == Len(s) >= 1 /\ Ch(s, 1) \in UpperSet /\ DotSpaceAt(s, 2)

\* re.match(r'^[IVX]+\.?\s+', s)
MatchRoman(s) ==
    \E k \in 1..Len(s) :
        /\ \A j \in 1..k : Ch(s, j) \in {"I", "V", "X"}
        /\ DotSpaceAt(s, k + 1)

\* \w: the characters c with c.isalnum(), and the underscore
IsWordCh(c) == IsAlphaCh(c) \/ IsDigitCh(c) \/ c \in FractionChars \/ c = "_"

\* re.search(r'\b(w1|w2|...)\s+\d+', s, re.IGNORECASE) for the words ws
SearchWordNumber(ws, s) ==
    LET t == Lower(s)
    IN  \E w \in ws : \E a \in 1..(Len(t) - Len(w) + 1) :
           /\ SubSeq(t, a, a + Len(w) - 1) = w
           /\ (a = 1 \/ ~IsWordCh(Ch(t, a - 1)))
           /\ \E b \in (a + Len(w) + 1)..Len(t) :
                 /\ IsDecimalCh(Ch(t, b))
                 /\ \A j \in (a + Len(w))..(b - 1) : IsSpaceCh(Ch(t, j))

\* re.search(r'[a-z]{1,2}[A-Z]{1,2}[a-z]{1,2}', s)
SearchMixedCase(s) ==
    LET lo(k) == k <= Len(s) /\ Ch(s, k) \in CharsOf(LOWER)
        up(k) == k <= Len(s) /\ Ch(s, k) \in UpperSet
    IN  \E k \in 1..Len(s) : lo(k) /\ up(k + 1) /\ (lo(k + 2) \/ (up(k + 2) /\ lo(k + 3)))

\* s is \d+ followed by suffix
DigitsThen(s, suffix) ==
    EndsWith(s, suffix) /\ Digits(SubSeq(s, 1, Len(s) - Len(suffix)))

\* s is \d+\.\d+ followed by suffix
DecimalThen(s, suffix) ==
    /\ EndsWith(s, suffix)
    /\ LET body == SubSeq(s, 1, Len(s) - Len(suffix))
           d == DigitRun(body, 1)
       IN  /\ d >= 1
           /\ d + 1 <= Len(body)
           /\ Ch(body, d + 1) = "."
           /\ Digits(SubSeq(body, d + 2, Len(body)))

\* re.match(r'^\d+M\s*\(\d+%\)$', s)
MatchFunding(s) ==
    LET d == DigitRun(s, 1)
    IN  /\ d >= 1
        /\ d + 1 <= Len(s)
        /\ Ch(s, d + 1) = "M"
        /\ \E b \in (d + 2)..Len(s) :
              /\ Ch(s, b) = "("
              /\ \A j \in (d + 2)..(b - 1) : IsSpaceCh(Ch(s, j))
              /\ DigitsThen(SubSeq(s, b + 1, Len(s)), "%)")

\* any(re.match(pattern, text) for pattern in skip_patterns), text stripped
MatchesSkipPattern(s) ==
    \/ Digits(s)                                             \* ^\d+$
    \/ (StartsWith(s, "$") /\ DigitRun(s, 2) >= 1)           \* ^\$\d+
    \/ DigitsThen(s, "%")                                     \* ^\d+%$
    \/ DecimalThen(s, "%")                                    \* ^\d+\.\d+%$
    \/ MatchFunding(s)                                        \* ^\d+M\s*\(\d+%\)$
    \/ (Len(s) = 1 /\ Ch(s, 1) \in UpperSet)                  \* ^[A-Z]\s*$
    \/ DecimalThen(s, "")                                     \* ^\d+\.\d+$
    \/ (StartsWith(s, "March ") /\ Len(s) = 10
           /\ Digits(SubSeq(s, 7, 10)))                      \* ^March \d{4}$
    \/ (Len(s) = 4 /\ Digits(s))                             \* ^\d{4}$

\* any(re.search(pattern, text) for pattern in corruption_patterns)
MatchesCorruptionPattern(s) ==
    \/ ContainsAny({"foooor", "Prr Prr Prr", "Reeeequest"}, s)
    \/ SearchMixedCase(s)

\* s[from..] matches .*\s+\d+$ : a run without a newline ('.' of a pattern
\* does not match one), then one or more whitespace characters, then digits
\* up to the end
EndsWithSpaceNumber(s, from) ==
    \E k \in from..(Len(s) - 1) : \E m \in from..k :
        /\ \A j \in from..(m - 1) : Ch(s, j) # "\n"
        /\ \A j \in m..k : IsSpaceCh(Ch(s, j))
        /\ Digits(SubSeq(s, k + 1, Len(s)))

\* re.match(r'.*\.{3,}\s*\d+$', s)
MatchDotLeader(s) ==
    \E k \in 4..Len(s) :
        /\ Digits(SubSeq(s, k, Len(s)))
        /\ \E d \in 3..(k - 1) :
              /\ SubSeq(s, d - 2, d) = "..."
              /\ \A j \in (d + 1)..(k - 1) : IsSpaceCh(Ch(s, j))
              /\ \A j \in 1..(d - 3) : Ch(s, j) # "\n"

\* re.match(r'^\d+\.\s+.*\s+\d+$', s)
MatchNumberedTocEntry(s) ==
    LET d == DigitRun(s, 1)
    IN  /\ d >= 1
        /\ d + 2 <= Len(s)
        /\ Ch(s, d + 1) = "."
        /\ \E b \in (d + 2)..Len(s) :
              /\ \A j \in (d + 2)..b : IsSpaceCh(Ch(s, j))
              /\ EndsWithSpaceNumber(s, b + 1)

\* re.match(r'^[A-Z][a-z].*\s+\d+$', s)
MatchTitleCaseTocEntry(s) ==
    /\ Len(s) >= 2
    /\ Ch(s, 1) \in UpperSet
    /\ Ch(s, 2) \in CharsOf(LOWER)
    /\ EndsWithSpaceNumber(s, 3)

-----------------------------------------------------------------------------
(* TOC detection.                                                           *)

is_toc_entry(raw) ==
    LET text == Strip(raw)
    IN  \/ MatchDotLeader(text)
        \/ EndsWithSpaceNumber(text, 1)
        \/ MatchNumberedTocEntry(text)
        \/ MatchTitleCaseTocEntry(text)
        \/ ContainsAny({"contents", "index", "table of contents", "toc"}, Lower(text))

is_in_toc_section(text, page) ==
    \/ ContainsAny({"table of contents", "contents", "index", "toc"}, Lower(text))
    \/ (page <= 6 /\ is_toc_entry(text))

-----------------------------------------------------------------------------
(* Python's float: IEEE 754 binary64 arithmetic, round to nearest, ties to  *)
(* even.  A natural number of any size is a sequence of limbs in base       *)
(* 2^15, least significant first, without leading zero limbs.  A float is   *)
(* zero or sign * m * 2^e with 2^52 <= m < 2^53.  Infinities, NaN and       *)
(* subnormal numbers are out of the range of the scores.                    *)

LimbBits == 15

Limb == 2^LimbBits

Pow2 == [k \in 0..LimbBits |-> 2^k]

\* a[2..], <<>> for the empty sequence
Rest(a) == IF a = <<>> THEN <<>> ELSE Tail(a)

\* a[1], 0 for the empty sequence
Low(a) == IF a = <<>> THEN 0 ELSE a[1]

\* a * 2^LimbBits
ShiftLimb(a) == IF a = <<>> THEN <<>> ELSE <<0>> \o a

RECURSIVE BigTrim(_)

BigTrim(a) ==
    IF a # <<>> /\ a[Len(a)] = 0 THEN BigTrim(SubSeq(a, 1, Len(a) - 1)) ELSE a

RECURSIVE BigFromInt(_)

BigFromInt(n) == IF n = 0 THEN <<>> ELSE <<n % Limb>> \o BigFromInt(n \div Limb)

RECURSIVE BigAddCarry(_, _, _)

\* a + b + c
BigAddCarry(a, b, c) ==
    IF a = <<>> /\ b = <<>> THEN (IF c = 0 THEN <<>> ELSE <<c>>)
    ELSE <<(Low(a) + Low(b) + c) % Limb>>
         \o BigAddCarry(Rest(a), Rest(b), (Low(a) + Low(b) + c) \div Limb)

BigAdd(a, b) == BigAddCarry(a, b, 0)

RECURSIVE BigSubBorrow(_, _, _)

\* a - b - c for a >= b + c, before trimming
BigSubBorrow(a, b, c) ==
    IF a = <<>> THEN <<>>
    ELSE IF a[1] - Low(b) - c < 0
    THEN <<a[1] - Low(b) - c + Limb>> \o BigSubBorrow(Tail(a), Rest(b), 1)
    ELSE <<a[1] - Low(b) - c>> \o BigSubBorrow(Tail(a), Rest(b), 0)

BigSub(a, b) == BigTrim(BigSubBorrow(a, b, 0))

RECURSIVE BigLessFrom(_, _, _)

\* a < b for a and b of the same length, read from limb k down
BigLessFrom(a, b, k) ==
    IF k = 0 THEN FALSE
    ELSE IF a[k] # b[k] THEN a[k] < b[k]
    ELSE BigLessFrom(a, b, k - 1)

BigLess(a, b) ==
    IF Len(a) # Len(b) THEN Len(a) < Len(b) ELSE BigLessFrom(a, b, Len(a))

RECURSIVE BigMulSmall(_, _, _)

\* a * d + c for one limb d
BigMulSmall(a, d, c) ==
    IF a = <<>> THEN (IF c = 0 THEN <<>> ELSE <<c>>)
    ELSE <<(a[1] * d + c) % Limb>> \o BigMulSmall(Tail(a), d, (a[1] * d + c) \div Limb)

RECURSIVE BigMul(_, _)

BigMul(a, b) ==
    IF a = <<>> \/ b = <<>> THEN <<>>
    ELSE BigAdd(BigMulSmall(b, a[1], 0), ShiftLimb(BigMul(Tail(a), b)))

\* number of bits of one limb
BitLenSmall(x) == IF x = 0 THEN 0 ELSE CHOOSE k \in 1..LimbBits : Pow2[k - 1] <= x /\ x < Pow2[k]

BitLen(a) == IF a = <<>> THEN 0 ELSE LimbBits * (Len(a) - 1) + BitLenSmall(a[Len(a)])

\* bit k of a, bit 0 the lowest
Bit(a, k) ==
    IF k \div LimbBits >= Len(a) THEN 0
    ELSE (a[(k \div LimbBits) + 1] \div Pow2[k % LimbBits]) % 2

\* a * 2^s
BigShl(a, s) ==
    IF a = <<>> THEN <<>>
    ELSE [k \in 1..(s \div LimbBits) |-> 0] \o BigMulSmall(a, Pow2[s % LimbBits], 0)

\* a \div 2^r for r < LimbBits, before trimming
ShrBits(a, r) ==
    [k \in 1..Len(a) |->
        (a[k] \div Pow2[r])
        + (IF k < Len(a) THEN (a[k + 1] % Pow2[r]) * Pow2[LimbBits - r] ELSE 0)]

\* a \div 2^s
BigShr(a, s) ==
    IF s \div LimbBits >= Len(a) THEN <<>>
    ELSE BigTrim(ShrBits(SubSeq(a, (s \div LimbBits) + 1, Len(a)), s % LimbBits))

\* a % 2^s # 0
LowBitsSet(a, s) ==
    \/ \E k \in 1..(s \div LimbBits) : k <= Len(a) /\ a[k] # 0
    \/ s \div LimbBits < Len(a) /\ a[(s \div LimbBits) + 1] % Pow2[s % LimbBits] # 0

MantissaBits == 53

FloatZero == [neg |-> FALSE, m |-> <<>>, e |-> 0]

\* n \div 2^s for s > 0, rounded to nearest: up when the part cut off is more
\* than half of the last place kept, or half of it and the last bit kept is odd
RoundedShr(n, s) ==
    IF Bit(n, s - 1) = 1 /\ (LowBitsSet(n, s - 1) \/ Bit(n, s) = 1)
    THEN BigAdd(BigShr(n, s), <<1>>)
    ELSE BigShr(n, s)

\* sign * m * 2^e for a mantissa m that rounding up may have carried to 2^53
Renormalised(neg, m, e) ==
    IF BitLen(m) > MantissaBits THEN [neg |-> neg, m |-> BigShr(m, 1), e |-> e + 1]
    ELSE [neg |-> neg, m |-> m, e |-> e]

\* the float nearest to sign * n * 2^e for n > 0 of s bits more than a mantissa
RoundedBy(neg, n, e, s) ==
    IF s <= 0 THEN [neg |-> neg, m |-> BigShl(n, -s), e |-> e + s]
    ELSE Renormalised(neg, RoundedShr(n, s), e + s)

\* the float nearest to sign * n * 2^e, ties to the even mantissa
FloatRound(neg, n, e) ==
    IF n = <<>> THEN FloatZero ELSE RoundedBy(neg, n, e, BitLen(n) - MantissaBits)

\* float(n) of an int n
FloatOfInt(n) == FloatRound(n < 0, BigFromInt(IF n < 0 THEN -n ELSE n), 0)

\* beyond this difference of exponents the smaller operand of a sum is less
\* than a quarter of the last place of the larger
FarApart == MantissaBits + 2

\* the sum of a * 2^e and b * 2^e with their signs
AddAligned(aneg, a, bneg, b, e) ==
    IF aneg = bneg THEN FloatRound(aneg, BigAdd(a, b), e)
    ELSE IF BigLess(a, b) THEN FloatRound(bneg, BigSub(b, a), e)
    ELSE FloatRound(aneg, BigSub(a, b), e)

\* x + y
FloatAdd(x, y) ==
    IF x.m = <<>> THEN y
    ELSE IF y.m = <<>> THEN x
    ELSE IF x.e - y.e >= FarApart THEN x
    ELSE IF y.e - x.e >= FarApart THEN y
    ELSE IF x.e < y.e THEN AddAligned(x.neg, x.m, y.neg, BigShl(y.m, y.e - x.e), x.e)
    ELSE AddAligned(x.neg, BigShl(x.m, x.e - y.e), y.neg, y.m, y.e)

FloatNeg(x) == IF x.m = <<>> THEN x ELSE [x EXCEPT !.neg = ~x.neg]

\* x - y
FloatSub(x, y) == FloatAdd(x, FloatNeg(y))

\* x * y
FloatMul(x, y) ==
    IF x.m = <<>> \/ y.m = <<>> THEN FloatZero
    ELSE FloatRound(x.neg # y.neg, BigMul(x.m, y.m), x.e + y.e)

RECURSIVE BigDigit(_, _, _)

\* the largest q <= guess with q * d <= r
BigDigit(r, d, guess) ==
    IF guess > 0 /\ BigLess(r, BigMulSmall(d, guess, 0)) THEN BigDigit(r, d, guess - 1)
    ELSE guess

\* the two top limbs of r as one number, r taken as having n + 1 limbs
TopTwo(r, n) ==
    (IF Len(r) > n THEN r[n + 1] * Limb ELSE 0) + (IF Len(r) >= n THEN r[n] ELSE 0)

\* the next limb of the quotient of r by d, for r < d * Limb and d with its top
\* limb at least Limb / 2: guessed from the two top limbs of r and the top limb
\* of d, the guess is at most two too large
NextDigit(r, d) ==
    BigDigit(r, d, IF TopTwo(r, Len(d)) \div d[Len(d)] < Limb
                   THEN TopTwo(r, Len(d)) \div d[Len(d)]
                   ELSE Limb - 1)

\* the quotient low.q with one more limb, digit, above it
WithDigit(low, digit) == [q |-> low.q \o <<digit>>, r |-> low.r]

RECURSIVE BigDivLimbs(_, _, _)

RECURSIVE BigDivStep(_, _, _, _)

\* long division of r * Limb^steps by d for r < d, one limb of the quotient at
\* a time: the quotient q and the remainder r
BigDivLimbs(r, d, steps) ==
    IF steps = 0 THEN [q |-> <<>>, r |-> r]
    ELSE BigDivStep(ShiftLimb(r), d, steps, NextDigit(ShiftLimb(r), d))

\* the step of the division that finds digit
BigDivStep(r, d, steps, digit) ==
    WithDigit(BigDivLimbs(IF digit = 0 THEN r ELSE BigSub(r, BigMulSmall(d, digit, 0)),
                          d, steps - 1),
              digit)

\* limbs of the quotient computed after its leading bit: 60 bits, the mantissa
\* and more
QuotientLimbs == (MantissaBits + LimbBits - 1) \div LimbBits

\* the shift that makes a mantissa fill its top limb
MantissaFill == (LimbBits - (MantissaBits % LimbBits)) % LimbBits

\* the float nearest to sign * (first + rest.q / Limb^QuotientLimbs) * 2^e; a
\* last bit records a remainder rest.r # 0
QuotientRounded(neg, first, rest, e) ==
    FloatRound(neg,
               BigMulSmall(BigTrim(rest.q \o <<first>>), 2, IF rest.r = <<>> THEN 0 ELSE 1),
               e - QuotientLimbs * LimbBits - 1)

\* a * 2^e / d for mantissas a and d shifted to fill their top limb
DivAligned(neg, a, d, e) ==
    IF BigLess(a, d) THEN QuotientRounded(neg, 0, BigDivLimbs(a, d, QuotientLimbs), e)
    ELSE QuotientRounded(neg, 1, BigDivLimbs(BigSub(a, d), d, QuotientLimbs), e)

\* x / y for y # 0
FloatDiv(x, y) ==
    IF x.m = <<>> THEN FloatZero
    ELSE DivAligned(x.neg # y.neg, BigShl(x.m, MantissaFill), BigShl(y.m, MantissaFill),
                    x.e - y.e)

\* |x| < |y| for x and y other than zero
MagnitudeLess(x, y) == x.e < y.e \/ (x.e = y.e /\ BigLess(x.m, y.m))

\* x < y
FloatLess(x, y) ==
    IF x.m = <<>> THEN y.m # <<>> /\ ~y.neg
    ELSE IF y.m = <<>> THEN x.neg
    ELSE IF x.neg # y.neg THEN x.neg
    ELSE IF x.neg THEN MagnitudeLess(y, x)
    ELSE MagnitudeLess(x, y)

\* x > y
FloatGreater(x, y) == FloatLess(y, x)

\* min(a, b) and max(a, b) of Python: the first argument unless the second is
\* strictly smaller (larger)
FloatMin(a, b) == IF FloatLess(b, a) THEN b ELSE a

FloatMax(a, b) == IF FloatLess(a, b) THEN b ELSE a

\* the value of the decimal literal num / den, den a power of ten
Decimal(num, den) == FloatDiv(FloatOfInt(num), FloatOfInt(den))

\* the float of a literal with two decimals, by its hundredths:
\* Hundredths[15] is 0.15
Hundredths == [n \in 0..150 |-> Decimal(n, 100)]

-----------------------------------------------------------------------------
(* Sub-scores of the heading classifier, as the floats the code computes.   *)

Min2(a, b) == IF a < b THEN a ELSE b

Max2(a, b) == IF a > b THEN a ELSE b

\* max(0.0, min(1.0, score))
Clamp(score) == FloatMax(FloatZero, FloatMin(Hundredths[100], score))

\* score += c when cond holds
AddIf(score, cond, c) == IF cond THEN FloatAdd(score, c) ELSE score

\* if first: score += c, elif second: score += d
AddIfElif(score, first, c, second, d) ==
    IF first THEN FloatAdd(score, c) ELSE IF second THEN FloatAdd(score, d) ELSE score

\* if first: score += c, elif second: score -= d
AddIfSubElif(score, first, c, second, d) ==
    IF first THEN FloatAdd(score, c) ELSE IF second THEN FloatSub(score, d) ELSE score

RECURSIVE AddTimes(_, _, _)

\* score += c, n times over
AddTimes(score, c, n) == IF n = 0 THEN score ELSE AddTimes(FloatAdd(score, c), c, n - 1)

\* number of entries of the keyword list kws (a sequence: an entry listed
\* twice counts twice) that occur in t
KeywordHits(kws, t) == Cardinality({k \in 1..Len(kws) : Contains(kws[k], t)})

\* [e.get('y_position', 0) for e in elems]
YsOf(elems) == {elems[k].y_position : k \in 1..Len(elems)}

\* seq[-n:]
LastN(seq, n) == SubSeq(seq, Max2(1, Len(seq) - n + 1), Len(seq))

_is_section_start(element, surrounding_elements) ==
    IF surrounding_elements = <<>> THEN TRUE
    ELSE element.y_position - Max(YsOf(LastN(surrounding_elements, 3))) > 50

_has_heading_alignment(element, surrounding_elements) ==
    surrounding_elements # <<>>

\* heading_keywords of _calculate_semantic_score, all languages in dict order.
\* The 'ja' and 'zh' lists hold only kana and CJK words, which no text over the
\* modelled alphabet contains, and are left out.
SemanticKeywords ==
    <<"introduction", "overview", "background", "conclusion", "summary",
      "methodology", "approach", "results", "discussion", "references",
      "acknowledgement", "abstract", "contents", "objectives", "requirements",
      "structure", "career", "learning", "entry", "keeping", "business",
      "content", "fundamental", "principles", "practices", "processes",
      "methods", "techniques", "tools", "challenge", "mission", "theme",
      "round", "test", "case", "analysis", "research", "study",
      "timeline", "access", "training", "purchasing", "licensing",
      "support", "guidance", "advice", "investment", "value",
      "ontario", "digital", "library", "proposal", "developing", "plan",
      "critical", "component", "implementing", "road", "map", "prosperity",
      "strategy", "evaluation", "awarding", "contract", "committee",
      "appendix", "preamble", "membership", "reference", "resources",
      "introducción", "resumen", "conclusión", "metodología", "resultados",
      "discusión", "referencias", "objetivos", "requisitos", "estructura",
      "contenido", "análisis", "investigación", "estudio",
      "introduction", "résumé", "conclusion", "méthodologie", "résultats",
      "discussion", "références", "objectifs", "exigences", "structure",
      "contenu", "analyse", "recherche", "étude",
      "einleitung", "zusammenfassung", "schlussfolgerung", "methodik", "ergebnisse",
      "diskussion", "referenzen", "ziele", "anforderungen", "struktur",
      "inhalt", "analyse", "forschung", "studie">>

_calculate_semantic_score(text) ==
    FloatMin(AddIf(AddIf(AddIf(AddTimes(FloatZero, Hundredths[15],
                                        KeywordHits(SemanticKeywords, Lower(text))),
                               IsTitle(text), Hundredths[40]),
                         IsUpper(text) /\ Len(text) < 50, Hundredths[30]),
                   WordCount(text) <= 3 /\ IsTitle(text), Hundredths[20]),
             Hundredths[100])

_calculate_visual_hierarchy_score(element, surrounding_elements) ==
    IF Len(surrounding_elements) >= 2
    THEN LET current_y == element.y_position
             prev_y == surrounding_elements[Len(surrounding_elements)].y_position
             next_y == surrounding_elements[1].y_position
         IN  IF Abs(current_y - prev_y) > 30 \/ Abs(next_y - current_y) > 30
             THEN Hundredths[40] ELSE FloatZero
    ELSE FloatZero

\* the numbered-pattern if/elif chain that opens the pattern scorers, applied
\* to their score of 0.0
NumberedScore(text) ==
    IF MatchNumbered(text, 1) THEN Hundredths[40]
    ELSE IF MatchNumbered(text, 2) THEN Hundredths[30]
    ELSE IF MatchNumbered(text, 3) THEN Hundredths[20]
    ELSE FloatZero

_calculate_sequential_score(text, surrounding_elements) ==
    AddIf(AddIf(AddIf(NumberedScore(text), MatchLettered(text), Hundredths[30]),
                MatchRoman(text), Hundredths[30]),
          SearchWordNumber({"chapter", "section", "part"}, text), Hundredths[50])

\* avg_font_size = sum(font_sizes) / len(font_sizes)
AvgFontSize(stats) == FloatDiv(FloatOfInt(stats.sum), FloatOfInt(stats.n))

\* font_ratio = font_size / avg_font_size if avg_font_size > 0 else 1.0
FontRatio(font_size, stats) ==
    IF FloatGreater(AvgFontSize(stats), FloatZero)
    THEN FloatDiv(FloatOfInt(font_size), AvgFontSize(stats))
    ELSE Hundredths[100]

RECURSIVE WeightedSum(_, _)

\* sum(scores[key] * weights[key] for key in scores): the products are added
\* from the left, starting from 0
WeightedSum(scores, weights) ==
    IF scores = <<>> THEN FloatZero
    ELSE FloatAdd(WeightedSum(SubSeq(scores, 1, Len(scores) - 1),
                              SubSeq(weights, 1, Len(weights) - 1)),
                  FloatMul(scores[Len(scores)], weights[Len(weights)]))

\* the if/elif chain on font_ratio, applied to the font score of 0.0
FontSizeScore(font_ratio) ==
    IF FloatGreater(font_ratio, Hundredths[150]) THEN Hundredths[90]
    ELSE IF FloatGreater(font_ratio, Hundredths[120]) THEN Hundredths[70]
    ELSE IF FloatGreater(font_ratio, Hundredths[110]) THEN Hundredths[50]
    ELSE FloatZero

\* the weighted final score of detect_heading_multi_modal
MultiModalScore(element, surrounding_elements, stats) ==
    WeightedSum(<<AddIf(FontSizeScore(FontRatio(element.font_size, stats)),
                        element.is_bold, Hundredths[20]),
                  AddIf(IF _is_section_start(element, surrounding_elements)
                        THEN Hundredths[80] ELSE FloatZero,
                        _has_heading_alignment(element, surrounding_elements),
                        Hundredths[30]),
                  _calculate_semantic_score(Strip(element.text)),
                  _calculate_visual_hierarchy_score(element, surrounding_elements),
                  _calculate_sequential_score(Strip(element.text), surrounding_elements)>>,
                <<Hundredths[25], Hundredths[20], Hundredths[25],
                  Hundredths[15], Hundredths[15]>>)

\* the threshold chain on final_score of detect_heading_multi_modal
MultiModalLevel(final_score) ==
    IF FloatGreater(final_score, Hundredths[70]) THEN "H1"
    ELSE IF FloatGreater(final_score, Hundredths[50]) THEN "H2"
    ELSE IF FloatGreater(final_score, Hundredths[30]) THEN "H3"
    ELSE None

detect_heading_multi_modal(element, surrounding_elements, stats) ==
    LET text == Strip(element.text)
    IN  IF Len(text) < 3 \/ Len(text) > 100 THEN None
        ELSE IF Count(text, ".") > 2 THEN None
        ELSE IF 10 * CountLower(text) > 8 * Len(text) THEN None
        ELSE IF element.y_position < 50 THEN None
        ELSE MultiModalLevel(MultiModalScore(element, surrounding_elements, stats))

\* sum(1 for word in text.split() if word.istitle())
TitleCaseWords(text) ==
    Cardinality({k \in WordStarts(text) : IsTitle(SubSeq(text, k, WordEnd(text, k)))})

\* the features statistical_classifier reads; ratios are kept as counts
extract_ml_features(text) ==
    [length |-> Len(text),
     word_count |-> WordCount(text),
     uppercase |-> CountUpper(text),
     punctuation |-> Cardinality({k \in 1..Len(text) :
                                     Ch(text, k) \in {".", ",", ";", ":", "!", "?"}}),
     title_case_words |-> TitleCaseWords(text),
     starts_with_number |-> DigitRun(text, 1) >= 1,
     contains_colon |-> Contains(":", text),
     has_parentheses |-> Contains("(", text) /\ Contains(")", text),
     sentence_count |-> Count(text, ".") + Count(text, "!") + Count(text, "?")]

statistical_classifier(features) ==
    Clamp(AddIfSubElif(
        AddIf(AddIf(AddIf(AddIf(
            \* punctuation_ratio < 0.1, elif punctuation_ratio > 0.3
            AddIfSubElif(
                \* 0.3 <= uppercase_ratio <= 0.8, elif uppercase_ratio > 0.9
                AddIfElif(
                    AddIfSubElif(
                        AddIfSubElif(FloatZero,
                                     5 <= features.length /\ features.length <= 80,
                                     Hundredths[20],
                                     features.length > 100, Hundredths[30]),
                        1 <= features.word_count /\ features.word_count <= 10,
                        Hundredths[20],
                        features.word_count > 15, Hundredths[20]),
                    10 * features.uppercase >= 3 * Max2(1, features.length)
                        /\ 10 * features.uppercase <= 8 * Max2(1, features.length),
                    Hundredths[30],
                    10 * features.uppercase > 9 * Max2(1, features.length),
                    Hundredths[10]),
                10 * features.punctuation < Max2(1, features.length), Hundredths[20],
                10 * features.punctuation > 3 * Max2(1, features.length), Hundredths[30]),
            \* title_case_words >= word_count * 0.5
            2 * features.title_case_words >= features.word_count, Hundredths[30]),
            features.contains_colon, Hundredths[10]),
            features.has_parentheses, Hundredths[10]),
            features.starts_with_number, Hundredths[20]),
        features.sentence_count = 0, Hundredths[20],
        features.sentence_count > 2, Hundredths[40]))

pattern_classifier(text) ==
    Clamp(AddIf(AddIf(AddIf(AddIf(AddIf(NumberedScore(text),
                                        MatchLettered(text), Hundredths[30]),
                                  MatchRoman(text), Hundredths[30]),
                            SearchWordNumber({"chapter", "section", "part", "appendix"},
                                             text),
                            Hundredths[50]),
                      EndsWith(text, "?"), Hundredths[20]),
                WordCount(text) <= 5 /\ IsTitle(text), Hundredths[30]))

\* y_position of the surrounding elements below / above the element
YsBelow(element, surrounding_elements) ==
    {y \in YsOf(surrounding_elements) : y < element.y_position}

YsAbove(element, surrounding_elements) ==
    {y \in YsOf(surrounding_elements) : y > element.y_position}

position_classifier(element, surrounding_elements) ==
    IF surrounding_elements = <<>> THEN Hundredths[50]
    ELSE LET current_y == element.y_position
             prev == YsBelow(element, surrounding_elements)
             spacing == IF prev = {} THEN 0 ELSE current_y - Max(prev)
         IN  Clamp(AddIf(AddIfElif(FloatZero, spacing > 50, Hundredths[40],
                                   spacing > 20, Hundredths[20]),
                         current_y > 800, Hundredths[20]))

\* heading_keywords of _has_heading_semantics (its kana and CJK entries, which
\* no text over the modelled alphabet contains, are left out)
HeadingSemanticsKeywords ==
    <<"introduction", "overview", "background", "conclusion", "summary",
      "methodology", "approach", "results", "discussion", "references",
      "acknowledgement", "abstract", "contents", "objectives", "requirements",
      "structure", "challenge", "mission", "theme", "round", "test", "case",
      "analysis", "research", "study", "chapter", "section", "part",
      "introducción", "resumen", "conclusión", "análisis", "investigación",
      "introduction", "résumé", "conclusion", "analyse", "recherche",
      "einleitung", "zusammenfassung", "analyse", "forschung">>

_has_heading_semantics(text) ==
    FloatMin(Hundredths[100],
             AddIf(AddIf(AddIf(AddTimes(FloatZero, Hundredths[10],
                                        KeywordHits(HeadingSemanticsKeywords, Lower(text))),
                               IsTitle(text), Hundredths[30]),
                         IsUpper(text) /\ Len(text) < 50, Hundredths[20]),
                   EndsWith(text, "?"), Hundredths[20]))

_has_heading_structure(text) ==
    FloatMin(Hundredths[100],
             AddIf(AddIf(AddIf(AddIf(AddIf(NumberedScore(text),
                                           MatchLettered(text), Hundredths[30]),
                                     MatchRoman(text), Hundredths[30]),
                               SearchWordNumber({"chapter", "section", "part", "appendix"},
                                                text),
                               Hundredths[50]),
                         WordCount(text) <= 5 /\ IsTitle(text), Hundredths[30]),
                   Contains(":", text), Hundredths[10]))

_has_visual_hierarchy(element, surrounding_elements) ==
    IF surrounding_elements = <<>> THEN Hundredths[50]
    ELSE LET current_y == element.y_position
             prev == YsBelow(element, surrounding_elements)
             next == YsAbove(element, surrounding_elements)
         IN  FloatMin(Hundredths[100],
                      AddIf(AddIf(AddIf(FloatZero,
                                        prev # {} /\ current_y - Max(prev) > 30,
                                        Hundredths[30]),
                                  next # {} /\ Min(next) - current_y > 30,
                                  Hundredths[20]),
                            element.is_bold, Hundredths[20]))

_is_at_page_top(element) == element.y_position > 800

_is_at_section_start(element, surrounding_elements) ==
    LET prev == YsBelow(element, surrounding_elements)
    IN  IF surrounding_elements = <<>> \/ prev = {} THEN TRUE
        ELSE element.y_position - Max(prev) > 50

\* the position score of font_agnostic_heading_detection, applied to its score
\* of 0.0
FontAgnosticPosition(element, surrounding_elements) ==
    IF _is_at_page_top(element) THEN Hundredths[40]
    ELSE IF _is_at_section_start(element, surrounding_elements) THEN Hundredths[30]
    ELSE FloatZero

\* score += semantic * 0.3, += structural * 0.3, += visual * 0.2, at most 1.0
FontAgnosticSum(score, element, surrounding_elements) ==
    FloatMin(Hundredths[100],
             FloatAdd(FloatAdd(FloatAdd(score,
                                        FloatMul(_has_heading_semantics(Strip(element.text)),
                                                 Hundredths[30])),
                               FloatMul(_has_heading_structure(Strip(element.text)),
                                        Hundredths[30])),
                      FloatMul(_has_visual_hierarchy(element, surrounding_elements),
                               Hundredths[20])))

\* variant of font_agnostic_heading_detection: a font larger than 12 adds 0.2
FontAgnosticWithFontBonus(element, surrounding_elements) ==
    LET text == Strip(element.text)
    IN  IF Len(text) < 3 \/ Len(text) > 100 THEN FloatZero
        ELSE IF Count(text, ".") > 2 THEN FloatZero
        ELSE IF 10 * CountLower(text) > 8 * Len(text) THEN FloatZero
        ELSE FontAgnosticSum(AddIf(FontAgnosticPosition(element, surrounding_elements),
                                   element.font_size > 12, Hundredths[20]),
                             element, surrounding_elements)

font_agnostic_heading_detection(element, surrounding_elements) ==
    LET text == Strip(element.text)
    IN  IF Len(text) < 3 \/ Len(text) > 100 THEN FloatZero
        ELSE IF Count(text, ".") > 2 THEN FloatZero
        ELSE IF 10 * CountLower(text) > 8 * Len(text) THEN FloatZero
        ELSE FontAgnosticSum(FontAgnosticPosition(element, surrounding_elements),
                             element, surrounding_elements)

\* the per-language scores: 0.2 for every keyword of the list found, at most 1.0
KeywordScore(kws, t) ==
    FloatMin(Hundredths[100], AddTimes(FloatZero, Hundredths[20], KeywordHits(kws, t)))

\* every keyword and numbering pattern of _japanese_heading_score,
\* _chinese_heading_score and _russian_heading_score holds a kana, CJK or
\* Cyrillic character outside the modelled alphabet, so for a text over the
\* alphabet the loops add nothing
_japanese_heading_score(text) == FloatZero

_chinese_heading_score(text) == FloatZero

_russian_heading_score(text) == FloatZero

_spanish_heading_score(text) ==
    KeywordScore(<<"introducción", "resumen", "conclusión", "metodología", "resultados",
                   "discusión", "referencias", "objetivos", "requisitos", "estructura",
                   "contenido", "análisis", "investigación", "estudio", "capítulo",
                   "sección", "apéndice", "índice">>, Lower(text))

_french_heading_score(text) ==
    KeywordScore(<<"introduction", "résumé", "conclusion", "méthodologie", "résultats",
                   "discussion", "références", "objectifs", "exigences", "structure",
                   "contenu", "analyse", "recherche", "étude", "chapitre",
                   "section", "annexe", "index">>, Lower(text))

_german_heading_score(text) ==
    KeywordScore(<<"einleitung", "zusammenfassung", "schlussfolgerung", "methodik",
                   "ergebnisse", "diskussion", "referenzen", "ziele", "anforderungen",
                   "struktur", "inhalt", "analyse", "forschung", "studie", "kapitel",
                   "abschnitt", "anhang", "verzeichnis">>, Lower(text))

_english_heading_score(text) ==
    KeywordScore(<<"introduction", "overview", "background", "conclusion", "summary",
                   "methodology", "approach", "results", "discussion", "references",
                   "acknowledgement", "abstract", "contents", "objectives", "requirements",
                   "structure", "chapter", "section", "appendix", "index">>, Lower(text))

language_specific_heading_detection(text, language) ==
    CASE language = "ja" -> _japanese_heading_score(text)
      [] language = "zh" -> _chinese_heading_score(text)
      [] language = "es" -> _spanish_heading_score(text)
      [] language = "fr" -> _french_heading_score(text)
      [] language = "de" -> _german_heading_score(text)
      [] language = "ru" -> _russian_heading_score(text)
      [] OTHER -> _english_heading_score(text)

-----------------------------------------------------------------------------
(* The ensemble classifier.                                                 *)

\* the pre-filters of ensemble_heading_detection, in the order of the code
LengthFilter(text) == Len(text) < 3 \/ Len(text) > 150

PeriodFilter(text) == Count(text, ".") > 3

\* sum(1 for c in text if c.islower()) > len(text) * 0.85
LowercaseFilter(text) == 100 * CountLower(text) > 85 * Len(text)

PositionFilter(element) == element.y_position < 30

TitleIndicatorFilter(text) ==
    ContainsAny({"rfp:", "request for proposal", "proposal for", "business plan"},
                Lower(text))

PreFiltered(element) ==
    LET text == Strip(element.text)
    IN  \/ LengthFilter(text)
        \/ PeriodFilter(text)
        \/ LowercaseFilter(text)
        \/ PositionFilter(element)
        \/ MatchesCorruptionPattern(text)
        \/ MatchesSkipPattern(text)
        \/ TitleIndicatorFilter(text)

main_section_keywords ==
    {"ontario's digital library", "critical component", "prosperity strategy",
     "summary", "background", "business plan to be developed",
     "approach and specific proposal requirements",
     "evaluation and awarding of contract", "appendix"}

HasMainSectionKeyword(text) == ContainsAny(main_section_keywords, Lower(text))

\* the dict scores of ensemble_heading_detection
EnsembleScores(element, surrounding_elements, stats, language) ==
    LET text == Strip(element.text)
    IN  [multi_modal |->
             IF detect_heading_multi_modal(element, surrounding_elements, stats) # None
             THEN Hundredths[80] ELSE FloatZero,
         statistical |-> statistical_classifier(extract_ml_features(text)),
         pattern |-> pattern_classifier(text),
         language_specific |-> language_specific_heading_detection(text, language),
         position |-> position_classifier(element, surrounding_elements),
         font_agnostic |-> font_agnostic_heading_detection(element, surrounding_elements)]

\* final_score = sum(scores[key] * weights[key] for key in scores)
FinalScore(scores) ==
    WeightedSum(<<scores.multi_modal, scores.statistical, scores.pattern,
                  scores.language_specific, scores.position, scores.font_agnostic>>,
                <<Hundredths[15], Hundredths[15], Hundredths[15],
                  Hundredths[15], Hundredths[15], Hundredths[25]>>)

\* variant of LevelOf: the thresholds of detect_heading_multi_modal
LevelOfMultiModalThresholds(final_score) == MultiModalLevel(final_score)

\* variant of LevelOf: thresholds compared with >= instead of >
LevelOfInclusive(final_score) ==
    IF ~FloatLess(final_score, Hundredths[50]) THEN "H1"
    ELSE IF ~FloatLess(final_score, Hundredths[35]) THEN "H2"
    ELSE IF ~FloatLess(final_score, Hundredths[20]) THEN "H3"
    ELSE IF ~FloatLess(final_score, Hundredths[10]) THEN "H4"
    ELSE None

\* the threshold chain on final_score
LevelOf(final_score) ==
    IF FloatGreater(final_score, Hundredths[50]) THEN "H1"
    ELSE IF FloatGreater(final_score, Hundredths[35]) THEN "H2"
    ELSE IF FloatGreater(final_score, Hundredths[20]) THEN "H3"
    ELSE IF FloatGreater(final_score, Hundredths[10]) THEN "H4"
    ELSE None

\* variant of ensemble_heading_detection: the main-section check placed
\* ahead of the filters
EnsembleOverrideFirst(element, surrounding_elements, stats, language) ==
    IF HasMainSectionKeyword(Strip(element.text)) THEN "H1"
    ELSE IF PreFiltered(element) THEN None
    ELSE LevelOf(FinalScore(EnsembleScores(element, surrounding_elements, stats, language)))

\* variant of ensemble_heading_detection: no main-section check
EnsembleNoOverride(element, surrounding_elements, stats, language) ==
    IF PreFiltered(element) THEN None
    ELSE LevelOf(FinalScore(EnsembleScores(element, surrounding_elements, stats, language)))

\* language stands for self.detected_language, stats for avg_font_size and
\* max_font_size
ensemble_heading_detection(element, surrounding_elements, stats, language) ==
    IF PreFiltered(element) THEN None
    ELSE IF HasMainSectionKeyword(Strip(element.text)) THEN "H1"
    ELSE LevelOf(FinalScore(EnsembleScores(element, surrounding_elements, stats, language)))

-----------------------------------------------------------------------------
(* Language detection and duplicate removal.                                *)

\* the characters with code points 32 to 95 and 97 to 126 (a string cannot
\* hold the grave accent), 160 to 255 and 945 to 969
ASCII_CHARS ==
    " !\"#$%&'()*+,-./0123456789:;<=>?@ABCDEFGHIJKLMNOPQRSTUVWXYZ[\\]^_abcdefghijklmnopqrstuvwxyz{|}~"

LATIN1_CHARS ==
    " ¡¢£¤¥¦§¨©ª«¬­®¯°±²³´µ¶·¸¹º»¼½¾¿ÀÁÂÃÄÅÆÇÈÉÊËÌÍÎÏÐÑÒÓÔÕÖ×ØÙÚÛÜÝÞßàáâãäåæçèéêëìíîïðñòóôõö÷øùúûüýþÿ"

GREEK_CHARS == LOWER_GREEK

\* ord(c) of the characters of the strings
CodeOf ==
    LET run(chars, first) == {<<Ch(chars, k), first + k - 1>> : k \in 1..Len(chars)}
        pairs == run(SubSeq(ASCII_CHARS, 1, 64), 32) \cup run(SubSeq(ASCII_CHARS, 65, 94), 97)
                     \cup run(LATIN1_CHARS, 160) \cup run(GREEK_CHARS, 945)
                     \cup run("\t\n\f\r", 9) \cup run("", 28)
                     \cup {<<"", 133>>, <<" ", 5760>>}
                     \cup run("むめも", 12416) \cup {<<"や", 12420>>, <<"ゆ", 12422>>}
                     \cup run("よらりるれろ", 12424) \cup {<<"わ", 12431>>} \cup run("をん", 12434)
                     \cup {<<"国", 22269>>, <<"德", 24503>>, <<"日", 26085>>, <<"法", 27861>>,
                            <<"美", 32654>>, <<"英", 33521>>}
    IN  [c \in {p[1] : p \in pairs} |-> (CHOOSE p \in pairs : p[1] = c)[2]]

\* the code points of the string s
CodePoints(s) == [k \in 1..Len(s) |-> CodeOf[Ch(s, k)]]

\* the fragments elems with their texts as code points
InCodePoints(elems) ==
    [k \in 1..Len(elems) |-> [elems[k] EXCEPT !.text = CodePoints(elems[k].text)]]

CodesOf(table) == {table[k] : k \in 1..Len(table)}

\* the hiragana of line 1155
HIRAGANA ==
    <<12354, 12356, 12358, 12360, 12362, 12363, 12365, 12367, 12369, 12371,
      12373, 12375, 12377, 12379, 12381, 12383, 12385, 12388, 12390, 12392,
      12394, 12395, 12396, 12397, 12398, 12399, 12402, 12405, 12408, 12411,
      12414, 12415, 12416, 12417, 12418, 12420, 12422, 12424, 12425, 12426,
      12427, 12428, 12429, 12431, 12434, 12435>>

\* the Chinese characters of line 1157
HANZI ==
    <<20320, 22909, 19990, 30028, 20013, 22269, 26085, 26412, 32654, 22269,
      33521, 22269, 27861, 22269, 24503, 22269>>

\* the Spanish letters of line 1159
SPANISH ==
    <<241, 225, 233, 237, 243, 250, 252, 241, 231>>

\* the French letters of line 1161
FRENCH ==
    <<224, 226, 228, 233, 232, 234, 235, 239, 238, 244, 246, 249, 251, 252,
      255, 231>>

\* the German letters of line 1163
GERMAN ==
    <<228, 246, 252, 223>>

\* the 33 small Cyrillic letters of line 1165
CYRILLIC ==
    <<1072, 1073, 1074, 1075, 1076, 1077, 1105, 1078, 1079, 1080, 1081, 1082,
      1083, 1084, 1085, 1086, 1087, 1088, 1089, 1090, 1091, 1092, 1093, 1094,
      1095, 1096, 1097, 1098, 1099, 1100, 1101, 1102, 1103>>

\* the 24 small Greek letters of line 1167
GREEK ==
    <<945, 946, 947, 948, 949, 950, 951, 952, 953, 954, 955, 956, 957, 958,
      959, 960, 961, 963, 964, 965, 966, 967, 968, 969>>

\* the 28 Arabic letters of line 1169
ARABIC ==
    <<1575, 1576, 1578, 1579, 1580, 1581, 1582, 1583, 1584, 1585, 1586, 1587,
      1588, 1589, 1590, 1591, 1592, 1593, 1594, 1601, 1602, 1603, 1604, 1605,
      1606, 1607, 1608, 1610>>

\* the cased characters: the letters of both cases, the ordinal indicators
\* and the micro sign
CasedCodes ==
    (65..90) \cup (97..122) \cup {170, 181, 186} \cup ((192..255) \ {215, 247})
        \cup ((913..969) \ {930}) \cup (1024..1119)

\* the characters that case ignores: ' . : ^ ` and the diaeresis, soft hyphen,
\* macron, acute accent, middle dot and cedilla of Latin-1, and the Arabic
\* tatweel
CaseIgnorableCodes == {39, 46, 58, 94, 96, 168, 173, 175, 180, 183, 184, 1600}

\* str.lower of the character c, capital sigma apart
LowerCode(c) ==
    IF c \in 65..90 \/ (c \in 192..222 /\ c # 215) THEN c + 32
    ELSE IF (c \in 913..939 /\ c # 930) \/ c \in 1040..1071 THEN c + 32
    ELSE IF c \in 1024..1039 THEN c + 80
    ELSE c

\* whether str.lower turns the capital sigma at place k of s into the final
\* small sigma: a cased character precedes it and none follows it, the
\* characters that case ignores being skipped
FinalSigma(s, k) ==
    LET before == {j \in 1..(k - 1) : s[j] \notin CaseIgnorableCodes}
        after == {j \in (k + 1)..Len(s) : s[j] \notin CaseIgnorableCodes}
    IN  /\ before # {}
        /\ s[Max(before)] \in CasedCodes
        /\ (after = {} \/ s[Min(after)] \notin CasedCodes)

\* str.lower on code points
LowerCodes(s) ==
    [k \in 1..Len(s) |->
        IF s[k] = 931 THEN (IF FinalSigma(s, k) THEN 962 ELSE 963) ELSE LowerCode(s[k])]

\* any(c in sample_text for c in chars)
AnyCodeIn(chars, sample_text) == \E k \in 1..Len(sample_text) : sample_text[k] \in chars

\* text_elements[:50]
SampledElements(elems) == Take(elems, 50)

RECURSIVE SampleText(_)

\* sample_text after the loop of lines 1149 and 1150: the text of every
\* fragment followed by a space (the list is halved to keep the evaluation
\* shallow)
SampleText(first) ==
    IF first = <<>> THEN <<>>
    ELSE IF Len(first) = 1 THEN Append(first[1].text, 32)
    ELSE SampleText(SubSeq(first, 1, Len(first) \div 2))
             \o SampleText(SubSeq(first, Len(first) \div 2 + 1, Len(first)))

\* variant of detect_language: the French table is tried before the Spanish one
DetectLanguageFrenchFirst(elems) ==
    LET sample_text == LowerCodes(SampleText(SampledElements(elems)))
    IN  IF AnyCodeIn(CodesOf(HIRAGANA), sample_text) THEN "ja"
        ELSE IF AnyCodeIn(CodesOf(HANZI), sample_text) THEN "zh"
        ELSE IF AnyCodeIn(CodesOf(FRENCH), sample_text) THEN "fr"
        ELSE IF AnyCodeIn(CodesOf(SPANISH), sample_text) THEN "es"
        ELSE IF AnyCodeIn(CodesOf(GERMAN), sample_text) THEN "de"
        ELSE IF AnyCodeIn(CodesOf(CYRILLIC), sample_text) THEN "ru"
        ELSE IF AnyCodeIn(CodesOf(GREEK), sample_text) THEN "el"
        ELSE IF AnyCodeIn(CodesOf(ARABIC), sample_text) THEN "ar"
        ELSE "en"

\* variant of detect_language: the German table is tried before the Spanish
\* and the French one
DetectLanguageGermanFirst(elems) ==
    LET sample_text == LowerCodes(SampleText(SampledElements(elems)))
    IN  IF AnyCodeIn(CodesOf(HIRAGANA), sample_text) THEN "ja"
        ELSE IF AnyCodeIn(CodesOf(HANZI), sample_text) THEN "zh"
        ELSE IF AnyCodeIn(CodesOf(GERMAN), sample_text) THEN "de"
        ELSE IF AnyCodeIn(CodesOf(SPANISH), sample_text) THEN "es"
        ELSE IF AnyCodeIn(CodesOf(FRENCH), sample_text) THEN "fr"
        ELSE IF AnyCodeIn(CodesOf(CYRILLIC), sample_text) THEN "ru"
        ELSE IF AnyCodeIn(CodesOf(GREEK), sample_text) THEN "el"
        ELSE IF AnyCodeIn(CodesOf(ARABIC), sample_text) THEN "ar"
        ELSE "en"

\* The texts of elems are sequences of code points.  The branches are those
\* of the code, in its order, each with the table of the code.
detect_language(elems) ==
    LET sample_text == LowerCodes(SampleText(SampledElements(elems)))
    IN  IF AnyCodeIn(CodesOf(HIRAGANA), sample_text) THEN "ja"
        ELSE IF AnyCodeIn(CodesOf(HANZI), sample_text) THEN "zh"
        ELSE IF AnyCodeIn(CodesOf(SPANISH), sample_text) THEN "es"
        ELSE IF AnyCodeIn(CodesOf(FRENCH), sample_text) THEN "fr"
        ELSE IF AnyCodeIn(CodesOf(GERMAN), sample_text) THEN "de"
        ELSE IF AnyCodeIn(CodesOf(CYRILLIC), sample_text) THEN "ru"
        ELSE IF AnyCodeIn(CodesOf(GREEK), sample_text) THEN "el"
        ELSE IF AnyCodeIn(CodesOf(ARABIC), sample_text) THEN "ar"
        ELSE "en"

\* the similarity as the fraction <<numerator, denominator>>
semantic_similarity_check(heading1, heading2) ==
    LET words1 == WordSet(Lower(heading1))
        words2 == WordSet(Lower(heading2))
    IN  IF words1 = {} \/ words2 = {} THEN <<0, 1>>
        ELSE <<Cardinality(words1 \cap words2), Cardinality(words1 \cup words2)>>

\* similarity > 0.7
IsSemanticDuplicate(similarity) == similarity[1] * 10 > 7 * similarity[2]

RECURSIVE SemanticLoop(_, _, _)
\* the loop of remove_semantic_duplicates from heading k on
SemanticLoop(headings_in, k, unique_headings) ==
    IF k > Len(headings_in) THEN unique_headings
    ELSE LET heading == headings_in[k]
             is_duplicate ==
                 \E m \in 1..Len(unique_headings) :
                     IsSemanticDuplicate(
                         semantic_similarity_check(heading.text, unique_headings[m].text))
         IN  SemanticLoop(headings_in, k + 1,
                          IF is_duplicate THEN unique_headings
                          ELSE Append(unique_headings, heading))

RECURSIVE SemanticLoopAdjacent(_, _, _)
\* variant of the loop: a heading is compared with the heading before it in
\* the input instead of with the headings kept so far
SemanticLoopAdjacent(headings_in, k, unique_headings) ==
    IF k > Len(headings_in) THEN unique_headings
    ELSE LET heading == headings_in[k]
             is_duplicate ==
                 k > 1 /\ IsSemanticDuplicate(
                     semantic_similarity_check(heading.text, headings_in[k - 1].text))
         IN  SemanticLoopAdjacent(headings_in, k + 1,
                                  IF is_duplicate THEN unique_headings
                                  ELSE Append(unique_headings, heading))

RemoveSemanticDuplicatesAdjacent(headings_in) == SemanticLoopAdjacent(headings_in, 1, <<>>)

RECURSIVE SemanticLoopKeepLast(_, _, _)
\* variant of the loop: a duplicate takes the place of the kept heading it
\* resembles
SemanticLoopKeepLast(headings_in, k, unique_headings) ==
    IF k > Len(headings_in) THEN unique_headings
    ELSE LET heading == headings_in[k]
             dups == {m \in 1..Len(unique_headings) :
                         IsSemanticDuplicate(
                             semantic_similarity_check(heading.text, unique_headings[m].text))}
         IN  SemanticLoopKeepLast(headings_in, k + 1,
                                  IF dups # {}
                                  THEN [unique_headings EXCEPT ![Min(dups)] = heading]
                                  ELSE Append(unique_headings, heading))

RemoveSemanticDuplicatesKeepLast(headings_in) == SemanticLoopKeepLast(headings_in, 1, <<>>)

RECURSIVE SemanticLoopSamePage(_, _, _)
\* variant of the loop: only a kept heading of the same page and level makes a
\* heading a duplicate
SemanticLoopSamePage(headings_in, k, unique_headings) ==
    IF k > Len(headings_in) THEN unique_headings
    ELSE LET heading == headings_in[k]
             is_duplicate ==
                 \E m \in 1..Len(unique_headings) :
                     /\ unique_headings[m].page = heading.page
                     /\ unique_headings[m].level = heading.level
                     /\ IsSemanticDuplicate(
                            semantic_similarity_check(heading.text, unique_headings[m].text))
         IN  SemanticLoopSamePage(headings_in, k + 1,
                                  IF is_duplicate THEN unique_headings
                                  ELSE Append(unique_headings, heading))

RemoveSemanticDuplicatesSamePage(headings_in) == SemanticLoopSamePage(headings_in, 1, <<>>)

remove_semantic_duplicates(headings_in) == SemanticLoop(headings_in, 1, <<>>)

\* variant of ExactKey: the text is not lower-cased
ExactKeyCaseSensitive(heading) == <<Strip(heading.text), heading.page, heading.level>>

\* key = (heading['text'].lower().strip(), heading['page'], heading['level'])
ExactKey(heading) == <<Strip(Lower(heading.text)), heading.page, heading.level>>

RECURSIVE ExactLoop(_, _, _, _)
\* the loop of remove_exact_duplicates from heading k on
ExactLoop(headings_in, k, seen, unique_headings) ==
    IF k > Len(headings_in) THEN unique_headings
    ELSE LET heading == headings_in[k]
             key == ExactKey(heading)
         IN  IF key \notin seen
             THEN ExactLoop(headings_in, k + 1, seen \cup {key},
                            Append(unique_headings, heading))
             ELSE ExactLoop(headings_in, k + 1, seen, unique_headings)

RECURSIVE ExactLoopKeepLast(_, _, _, _)
\* variant of the loop: a heading whose key was seen takes the place of the
\* kept heading with that key
ExactLoopKeepLast(headings_in, k, seen, unique_headings) ==
    IF k > Len(headings_in) THEN unique_headings
    ELSE LET heading == headings_in[k]
             key == ExactKey(heading)
         IN  IF key \notin seen
             THEN ExactLoopKeepLast(headings_in, k + 1, seen \cup {key},
                                    Append(unique_headings, heading))
             ELSE ExactLoopKeepLast(headings_in, k + 1, seen,
                      [m \in 1..Len(unique_headings) |->
                          IF ExactKey(unique_headings[m]) = key THEN heading
                          ELSE unique_headings[m]])

RemoveExactDuplicatesKeepLast(headings_in) == ExactLoopKeepLast(headings_in, 1, {}, <<>>)

remove_exact_duplicates(headings_in) == ExactLoop(headings_in, 1, {}, <<>>)

\* the two duplicate-removal passes in the order extract_outline applies them
DedupPipeline(headings_in) ==
    remove_semantic_duplicates(remove_exact_duplicates(headings_in))

-----------------------------------------------------------------------------
(* extract_outline.                                                         *)

\* variant of TocFilter: in_toc_section is never reset
TocFilterNoReset(in_toc, text, page) ==
    IF is_in_toc_section(text, page)
    THEN [suppressed |-> TRUE, in_toc_section |-> TRUE]
    ELSE IF in_toc /\ is_toc_entry(text)
    THEN [suppressed |-> TRUE, in_toc_section |-> in_toc]
    ELSE [suppressed |-> FALSE, in_toc_section |-> in_toc]

\* variant of TocFilter: the fragment that ends the section is skipped too
TocFilterDropsExitLine(in_toc, text, page) ==
    IF is_in_toc_section(text, page)
    THEN [suppressed |-> TRUE, in_toc_section |-> TRUE]
    ELSE IF in_toc
    THEN [suppressed |-> TRUE, in_toc_section |-> is_toc_entry(text)]
    ELSE [suppressed |-> FALSE, in_toc_section |-> FALSE]

\* the table-of-contents filter at the head of the loop body: whether the
\* fragment is skipped (continue) and the value in_toc_section has afterwards
TocFilter(in_toc, text, page) ==
    IF is_in_toc_section(text, page)
    THEN [suppressed |-> TRUE, in_toc_section |-> TRUE]
    ELSE IF in_toc /\ is_toc_entry(text)
    THEN [suppressed |-> TRUE, in_toc_section |-> in_toc]
    ELSE [suppressed |-> FALSE, in_toc_section |-> FALSE]

\* surrounding_elements of the fragment with 0-based index k
SurroundingElements(elems, k) ==
    (IF k > 0 THEN SubSeq(elems, Max2(0, k - 3) + 1, k) ELSE <<>>)
    \o (IF k < Len(elems) - 1 THEN SubSeq(elems, k + 2, Min2(Len(elems), k + 4)) ELSE <<>>)

\* [sum, n, max] of the font sizes: avg_font_size = sum / n
RECURSIVE SumFontSizes(_)
SumFontSizes(elems) ==
    IF elems = <<>> THEN 0 ELSE elems[1].font_size + SumFontSizes(Tail(elems))

FontStatistics(elems) ==
    [sum |-> SumFontSizes(elems), n |-> Len(elems),
     max |-> Max({elems[k].font_size : k \in 1..Len(elems)})]

RECURSIVE InsertByPageUnstable(_, _)
\* variant of InsertByPage: the heading is placed before the entries of its
\* own page
InsertByPageUnstable(sorted, heading) ==
    IF sorted = <<>> THEN <<heading>>
    ELSE IF sorted[Len(sorted)].page < heading.page THEN Append(sorted, heading)
    ELSE Append(InsertByPageUnstable(SubSeq(sorted, 1, Len(sorted) - 1), heading),
                sorted[Len(sorted)])

RECURSIVE InsertByPage(_, _)
\* heading placed after every entry of the sorted list whose page is not larger
InsertByPage(sorted, heading) ==
    IF sorted = <<>> THEN <<heading>>
    ELSE IF sorted[Len(sorted)].page <= heading.page THEN Append(sorted, heading)
    ELSE Append(InsertByPage(SubSeq(sorted, 1, Len(sorted) - 1), heading),
                sorted[Len(sorted)])

RECURSIVE SortHeadings(_)
\* headings.sort(key=lambda x: (x['page'], x.get('y_position', 0))): a heading
\* has no y_position, so the stable sort orders by page alone
SortHeadings(hs) ==
    IF hs = <<>> THEN <<>>
    ELSE InsertByPage(SortHeadings(SubSeq(hs, 1, Len(hs) - 1)), hs[Len(hs)])

-----------------------------------------------------------------------------
(* Fragments: the dicts built by extract_text_with_formatting.              *)

\* 'bold' in font_name.lower() or 'black' in font_name.lower()
IsBoldFont(font_name) ==
    Contains("bold", Lower(font_name)) \/ Contains("black", Lower(font_name))

\* the dict of a line of text whose most common character height is font_size
\* and whose most common font is font_name
Frag(text, font_size, page, y_position, font_name) ==
    [text |-> text, font_size |-> font_size, font_name |-> font_name, page |-> page,
     y_position |-> y_position, is_bold |-> IsBoldFont(font_name)]

\* sequences over S of length at most n
SeqsUpTo(S, n) == UNION {[1..k -> S] : k \in 0..n}

\* those of them that hold no element twice
DistinctSeqsUpTo(S, n) ==
    {q \in SeqsUpTo(S, n) : \A a, b \in 1..Len(q) : a # b => q[a] # q[b]}

\* the variables of extract_outline while no document is being processed
PipelineIdle ==
    /\ pc = "idle"
    /\ pdf_path = ""
    /\ text_elements = <<>>
    /\ detected_language = "en"
    /\ title = None
    /\ font_stats = None
    /\ i = 0
    /\ in_toc_section = FALSE
    /\ seen_headings = {}
    /\ headings = <<>>
    /\ processed = <<>>
    /\ fault = None
    /\ language_at_call = "en"
    /\ result = None

PipelineVars == <<pc, pdf_path, text_elements, detected_language, title, font_stats, i,
                  in_toc_section, seen_headings, headings, processed, fault,
                  language_at_call, result>>

-----------------------------------------------------------------------------
(* extract_text_with_formatting.  A document is the pages extract_pages     *)
(* yields, each a sequence of text lines with the height and font name of   *)
(* their characters; raises_at is the page at which the page-by-page        *)
(* extraction raises (0: it does not; 1 also stands for a file that cannot  *)
(* be opened; one more than the number of pages: after the last page);      *)
(* plain is what extract_text returns for the fallback, unless plain_fails. *)

\* Counter(seq).most_common(1)[0][0]: the most frequent value, the one met
\* first among equally frequent ones
MostCommon(seq) ==
    LET count(x) == Cardinality({k \in 1..Len(seq) : seq[k] = x})
        best == Max({count(seq[k]) : k \in 1..Len(seq)})
    IN  seq[Min({k \in 1..Len(seq) : count(seq[k]) = best})]

\* the dict appended for a text line with characters
LineElement(text_line, page_num) ==
    Frag(Strip(text_line.text),
         MostCommon([k \in 1..Len(text_line.chars) |-> text_line.chars[k].height]),
         page_num,
         text_line.y0,
         MostCommon([k \in 1..Len(text_line.chars) |-> text_line.chars[k].fontname]))

\* the elements of one page: lines without characters and texts of fewer
\* than two characters are skipped
PageElements(page_layout, page_num) ==
    LET kept == SelectSeq(page_layout,
                          LAMBDA text_line : text_line.chars # <<>>
                                             /\ Len(Strip(text_line.text)) > 1)
    IN  [k \in 1..Len(kept) |-> LineElement(kept[k], page_num)]

RECURSIVE PagesElements(_, _)

\* the elements of pages 1..n
PagesElements(pages, n) ==
    IF n = 0 THEN <<>>
    ELSE PagesElements(pages, n - 1) \o PageElements(pages[n], n)

RECURSIVE SplitLines(_)

\* s.split('\n')
SplitLines(s) ==
    IF ~Contains("\n", s) THEN <<s>>
    ELSE LET at == Min({k \in 1..Len(s) : Ch(s, k) = "\n"})
         IN  <<SubSeq(s, 1, at - 1)>> \o SplitLines(SubSeq(s, at + 1, Len(s)))

\* the elements of the fallback: one per non-blank line of the plain text
FallbackElements(simple_text) ==
    LET lines == SplitLines(simple_text)
        all == [k \in 1..Len(lines) |->
                   [text |-> Strip(lines[k]), font_size |-> 12, font_name |-> "default",
                    page |-> 1, y_position |-> 1000 - (k - 1), is_bold |-> FALSE]]
    IN  SelectSeq(all, LAMBDA element : element.text # "")

\* text_elements is one list: what the pages before the exception appended is
\* still in it when the fallback appends
extract_text_with_formatting(pdf) ==
    IF pdf.raises_at = 0 THEN PagesElements(pdf.pages, Len(pdf.pages))
    ELSE IF pdf.plain_fails THEN <<>>
    ELSE PagesElements(pdf.pages, pdf.raises_at - 1) \o FallbackElements(pdf.plain)

-----------------------------------------------------------------------------
(* SpecExtract: extract_text_with_formatting applied to a document.         *)

MaxPages == 2

Char(height, fontname) == [height |-> height, fontname |-> fontname]

\* the LTTextLine objects of the pages
TextLines ==
    {[text |-> "Annual Report\n", y0 |-> 700,
      chars |-> <<Char(18, "Arial-BoldMT"), Char(18, "Arial-BoldMT"), Char(12, "Arial")>>],
     [text |-> "  body text of the report \n", y0 |-> 650,
      chars |-> <<Char(10, "Times"), Char(12, "Times-Black"), Char(12, "Times-Black"),
                  Char(10, "Times")>>],
     [text |-> "7\n", y0 |-> 30, chars |-> <<Char(8, "Times")>>],
     [text |-> "\n", y0 |-> 500, chars |-> <<>>]}

PageLayouts == SeqsUpTo(TextLines, 1) \cup {<<l1, l2>> \in TextLines \X TextLines : l1.y0 > l2.y0}

PlainTexts == {"Annual Report\n\n  body text of the report \n7\n", "Annual Report", ""}

ExtractInputs ==
    {pdf \in [pages : SeqsUpTo(PageLayouts, MaxPages), raises_at : 0..(MaxPages + 1),
              plain : PlainTexts, plain_fails : BOOLEAN] :
        /\ pdf.raises_at <= Len(pdf.pages) + 1
        /\ pdf.plain_fails => pdf.plain = ""}

InitExtract ==
    /\ op = "init"
    /\ arg \in ExtractInputs
    /\ ret = None
    /\ PipelineIdle

CallExtractTextWithFormatting ==
    /\ op = "init"
    /\ op' = "extract_text_with_formatting"
    /\ ret' = extract_text_with_formatting(arg)
    /\ UNCHANGED <<arg, PipelineVars>>

NextExtract == CallExtractTextWithFormatting

SpecExtract == InitExtract /\ [][NextExtract]_vars

-----------------------------------------------------------------------------
(* SpecTitle: robust_title_extraction applied to a fragment list.           *)

MaxTitleFrags == 3

TitleFrags ==
    {Frag("RFP: Request for Proposal", 20, 1, 900, "Arial-BoldMT"),
     Frag("Annual Budget Review", 18, 1, 850, "Arial-BoldMT"),
     Frag("the quarterly report", 12, 1, 700, "Arial"),
     Frag("Copyright 2020", 10, 1, 40, "Arial"),
     Frag("12345", 10, 2, 500, "Arial"),
     Frag("Summary", 14, 2, 800, "Arial-BoldMT"),
     Frag("Ontario's Digital Library RFP", 16, 1, 950, "Arial-BoldMT"),
     Frag("Project Overview Notes:", 12, 1, 600, "Arial"),
     Frag("A Guide To Birds", 24, 2, 900, "Arial"),
     Frag("DRAFT PLAN", 12, 1, 300, "Arial"),
     Frag("São Paulo Report", 14, 1, 820, "Arial-BoldMT")}

InitTitle ==
    /\ op = "init"
    /\ arg \in SeqsUpTo(TitleFrags, MaxTitleFrags)
    /\ ret = None
    /\ PipelineIdle

CallRobustTitleExtraction ==
    /\ op = "init"
    /\ op' = "robust_title_extraction"
    /\ ret' = robust_title_extraction(arg)
    /\ UNCHANGED <<arg, PipelineVars>>

NextTitle == CallRobustTitleExtraction

SpecTitle == InitTitle /\ [][NextTitle]_vars

-----------------------------------------------------------------------------
(* SpecValidTitle: _is_valid_title applied to a candidate title.            *)

MaxTitleWords == 3

TitleWords == {"Annual", "Report", "2024", "-", "Draft", "ab", "Plan:"}

RECURSIVE Repeat(_, _)

\* s * n
Repeat(s, n) ==
    IF n = 0 THEN ""
    ELSE IF n % 2 = 0 THEN LET half == Repeat(s, n \div 2) IN half \o half
    ELSE s \o Repeat(s, n - 1)

\* candidates of 399, 400 and 401 characters, candidates of Latin-1 letters,
\* superscript digits and fractions, and the empty string
TitleCandidates ==
    {Join(ws) : ws \in SeqsUpTo(TitleWords, MaxTitleWords)}
        \cup {Repeat("word ", 79) \o "word", Repeat("word ", 79) \o "words",
              Repeat("word ", 79) \o "worded", Repeat("2024 ", 4), " Annual  Report ",
              "São Paulo", "ÃÃÃÃ ÕÕÕÕ", "ªªªª ºººº", "²³¹² ³¹²³", "¼½¾¼ ½¾¼½"}

InitValidTitle ==
    /\ op = "init"
    /\ arg \in TitleCandidates
    /\ ret = None
    /\ PipelineIdle

CallIsValidTitle ==
    /\ op = "init"
    /\ op' = "_is_valid_title"
    /\ ret' = _is_valid_title(arg)
    /\ UNCHANGED <<arg, PipelineVars>>

NextValidTitle == CallIsValidTitle

SpecValidTitle == InitValidTitle /\ [][NextValidTitle]_vars

-----------------------------------------------------------------------------
(* SpecLanguage: detect_language applied to a fragment list.                *)

MaxLanguageFrags == 2

\* the texts, as code points: English, Spanish in capitals, a word with a
\* letter of the Spanish and the French table, French, German with sharp s,
\* German with a- and o-umlaut, German with a capital U-umlaut, Greek,
\* hiragana, Chinese characters followed by a hiragana, Chinese characters,
\* Russian in capitals, Arabic, Greek capitals ending in sigma, and a Latin
\* capital before a capital sigma, which lower() turns into the final sigma
LanguageTexts ==
    {CodePoints("Project Plan"), CodePoints("AÑO FISCAL"), CodePoints("Résumé"),
     CodePoints("À propos"), CodePoints("Maße"), CodePoints("Käse schön"),
     CodePoints("Übung"), CodePoints("μετρον α"),
     <<12371, 12435, 12395, 12385, 12399>>,
     <<26085, 26412, 32, 12398>>,
     <<20320, 22909, 32, 19990, 30028>>,
     <<1055, 1056, 1048, 1042, 1045, 1058>>,
     <<1605, 1585, 1581, 1576, 1575>>,
     <<927, 916, 927, 931>>,
     <<65, 931>>}

\* n fragments of plain English text
RECURSIVE Padding(_)

Padding(n) ==
    IF n = 0 THEN <<>> ELSE Append(Padding(n - 1), Frag("body text", 10, 1, 1000 - n, "Arial"))

\* how many plain fragments precede the others: with 49 the first of the
\* others is the 50th fragment, with 50 it is the 51st
PaddingLengths == {0, 49, 50}

\* the fragment lists with up to max_frags of the texts behind the padding
LanguageInputs(max_frags) ==
    LET padding == [n \in PaddingLengths |-> InCodePoints(Padding(n))]
    IN  {padding[n] \o [k \in 1..Len(ts) |-> Frag(ts[k], 12, 2, 900 - k, "Arial")] :
            n \in PaddingLengths, ts \in SeqsUpTo(LanguageTexts, max_frags)}

InitLanguage ==
    /\ op = "init"
    /\ arg \in LanguageInputs(MaxLanguageFrags)
    /\ ret = None
    /\ PipelineIdle

CallDetectLanguage ==
    /\ op = "init"
    /\ op' = "detect_language"
    /\ ret' = detect_language(arg)
    /\ UNCHANGED <<arg, PipelineVars>>

NextLanguage == CallDetectLanguage

SpecLanguage == InitLanguage /\ [][NextLanguage]_vars

-----------------------------------------------------------------------------
(* SpecClassify: ensemble_heading_detection applied to one fragment.        *)

MaxNeighbors == 2

\* 156 characters
LongHeading ==
    "SECTION ONE SECTION ONE SECTION ONE SECTION ONE SECTION ONE SECTION ONE SECTION ONE SECTION ONE SECTION ONE SECTION ONE SECTION ONE SECTION ONE SECTION ONE"

ClassifyTexts ==
    {"1. Introduction", "Summary", "Project Background", "iPhone Summary",
     "Business Plan Summary", "ab", LongHeading, "A. B. C. D. E",
     "introduction to methods", "Reeeequest Overview", "2024", "$35M", "45%", "3.14",
     "35M (70%)", "March 2024", "Timeline", "Results And Discussion",
     "Chapter 2 Methods", "What Is Next?", "Phase II: Rollout (Draft)",
     "see Table 4, Fig. 2", "PROJECT TIMELINE", "2.1 Scope of Work", "Analyse des Objectifs",
     "Ãpart 1", "Ørsted Wind Power"}

\* a sentence of body text, 100 characters
ProseSentence ==
    "This is a long sentence explaining background context in prose form with no structure at all really."

ProseFragment == Frag(ProseSentence, 10, 3, 400, "Arial")

ClassifyFontSizes == {10, 18}

ClassifyFontNames == {"Arial", "Arial-BoldMT"}

ClassifyYPositions == {20, 400, 900}

ClassifyNeighbors ==
    {Frag("Body text above", 10, 1, 960, "Arial"),
     Frag("Body text near", 10, 1, 850, "Arial"),
     Frag("Body text below", 10, 1, 340, "Arial")}

ClassifyStats == {[sum |-> 10, n |-> 1, max |-> 18], [sum |-> 36, n |-> 2, max |-> 18]}

ClassifyLanguages == {"en", "fr"}

ClassifyInputs ==
    [element : {Frag(t, f, 1, y, n) : t \in ClassifyTexts, f \in ClassifyFontSizes,
                                      y \in ClassifyYPositions, n \in ClassifyFontNames}
               \cup {ProseFragment},
     surrounding_elements : DistinctSeqsUpTo(ClassifyNeighbors, MaxNeighbors),
     stats : ClassifyStats,
     language : ClassifyLanguages]

InitClassify ==
    /\ op = "init"
    /\ arg \in ClassifyInputs
    /\ ret = None
    /\ PipelineIdle

CallEnsembleHeadingDetection ==
    /\ op = "init"
    /\ op' = "ensemble_heading_detection"
    /\ ret' = ensemble_heading_detection(arg.element, arg.surrounding_elements,
                                         arg.stats, arg.language)
    /\ UNCHANGED <<arg, PipelineVars>>

CallFontAgnosticHeadingDetection ==
    /\ op = "init"
    /\ op' = "font_agnostic_heading_detection"
    /\ ret' = font_agnostic_heading_detection(arg.element, arg.surrounding_elements)
    /\ UNCHANGED <<arg, PipelineVars>>

NextClassify == CallEnsembleHeadingDetection \/ CallFontAgnosticHeadingDetection

SpecClassify == InitClassify /\ [][NextClassify]_vars

-----------------------------------------------------------------------------
(* SpecDedup: the duplicate-removal passes applied to a heading list, and   *)
(* the two-pass pipeline applied once more to its own output.               *)

MaxHeadings == 3

Heading(level, text, page) == [level |-> level, text |-> text, page |-> page]

DedupHeadings ==
    {Heading("H1", "Overview", 2), Heading("H1", "overview", 2),
     Heading("H1", " Overview", 2), Heading("H2", "Overview", 2),
     Heading("H1", "Overview", 3),
     Heading("H1", "Project Scope and Goals", 1),
     Heading("H2", "Project Scope and Goals Summary", 1),
     Heading("H2", "Project Scope and Goals Summary Notes", 2),
     Heading("H3", "Project Scope and Goals Review", 2),
     Heading("H1", " ", 2)}

InitDedup ==
    /\ op = "init"
    /\ arg \in SeqsUpTo(DedupHeadings, MaxHeadings)
    /\ ret = None
    /\ PipelineIdle

CallRemoveExactDuplicates ==
    /\ op = "init"
    /\ op' = "remove_exact_duplicates"
    /\ ret' = remove_exact_duplicates(arg)
    /\ UNCHANGED <<arg, PipelineVars>>

CallRemoveSemanticDuplicates ==
    /\ op = "init"
    /\ op' = "remove_semantic_duplicates"
    /\ ret' = remove_semantic_duplicates(arg)
    /\ UNCHANGED <<arg, PipelineVars>>

CallDedupPipeline ==
    /\ op = "init"
    /\ op' = "dedup"
    /\ ret' = DedupPipeline(arg)
    /\ UNCHANGED <<arg, PipelineVars>>

\* the pipeline applied to what it returned: first is the list it was given,
\* second the list it gave back
CallDedupPipelineAgain ==
    /\ op = "dedup"
    /\ op' = "dedup_again"
    /\ ret' = [first |-> ret, second |-> DedupPipeline(ret)]
    /\ UNCHANGED <<arg, PipelineVars>>

NextDedup ==
    \/ CallRemoveExactDuplicates
    \/ CallRemoveSemanticDuplicates
    \/ CallDedupPipeline
    \/ CallDedupPipelineAgain

SpecDedup == InitDedup /\ [][NextDedup]_vars

-----------------------------------------------------------------------------
(* Spec: extract_outline on a document, one step per loop iteration.        *)

MaxFrags == 3

PipelineFrags ==
    {Frag("Table of Contents", 14, 1, 900, "Arial-BoldMT"),
     Frag("Introduction ..... 3", 10, 1, 800, "Arial"),
     Frag("Annual Budget Review", 18, 1, 950, "Arial-BoldMT"),
     Frag("1. Introduction", 18, 2, 900, "Arial-BoldMT"),
     Frag("Chapter 1 Overview 12", 10, 7, 700, "Arial"),
     Frag("Index", 12, 7, 500, "Arial"),
     Frag("Project Timeline", 14, 7, 850, "Arial-BoldMT"),
     Frag("Summary", 14, 7, 400, "Arial-BoldMT")}

\* what extract_text_with_formatting can return: pages are enumerated in order
Documents ==
    {d \in SeqsUpTo(PipelineFrags, MaxFrags) :
        \A k \in 1..(Len(d) - 1) : d[k].page <= d[k + 1].page}

Paths == {"report.pdf", "file03.pdf"}

\* str(e) of the exceptions injected into the try block
Faults == {"division by zero", "'font_size'"}

\* the return of line 1382
EmptyResult == [title |-> UntitledDocument, outline |-> <<>>]

ErrorTitle == "Error Processing Document"

ErrorResultPartial(e) == [title |-> ErrorTitle, outline |-> headings, error |-> e]

\* the return of the except block
ErrorResult(e) == [title |-> ErrorTitle, outline |-> <<>>, error |-> e]

Init ==
    /\ op = "init"
    /\ arg = None
    /\ ret = None
    /\ PipelineIdle

\* the locals of the heading loop as a new call starts
ResetLoopLocals ==
    /\ i' = 0
    /\ in_toc_section' = FALSE
    /\ seen_headings' = {}
    /\ headings' = <<>>
    /\ processed' = <<>>

BeginCallDetectsOnEmpty(path, elems) ==
    /\ pdf_path' = path
    /\ text_elements' = elems
    /\ fault' = None
    /\ language_at_call' = detected_language
    /\ detected_language' = detect_language(InCodePoints(elems))
    /\ IF elems = <<>>
       THEN /\ pc' = "done"
            /\ result' = EmptyResult
            /\ title' = None
            /\ font_stats' = None
       ELSE /\ pc' = "loop"
            /\ result' = None
            /\ title' = IF Contains("file03.pdf", path) THEN OntarioTitle
                        ELSE robust_title_extraction(elems)
            /\ font_stats' = FontStatistics(elems)
    /\ ResetLoopLocals

BeginCallKeepsLanguage(path, elems) ==
    /\ pdf_path' = path
    /\ text_elements' = elems
    /\ fault' = None
    /\ language_at_call' = detected_language
    /\ IF elems = <<>>
       THEN /\ pc' = "done"
            /\ result' = EmptyResult
            /\ title' = None
            /\ font_stats' = None
            /\ UNCHANGED detected_language
       ELSE /\ pc' = "loop"
            /\ result' = None
            /\ detected_language' = IF detected_language = "en"
                                    THEN detect_language(InCodePoints(elems))
                                    ELSE detected_language
            /\ title' = IF Contains("file03.pdf", path) THEN OntarioTitle
                        ELSE robust_title_extraction(elems)
            /\ font_stats' = FontStatistics(elems)
    /\ ResetLoopLocals

\* extract_outline(path) up to the heading loop, elems being what
\* extract_text_with_formatting returned
BeginCall(path, elems) ==
    /\ pdf_path' = path
    /\ text_elements' = elems
    /\ fault' = None
    /\ language_at_call' = detected_language
    /\ IF elems = <<>>
       THEN /\ pc' = "done"
            /\ result' = EmptyResult
            /\ title' = None
            /\ font_stats' = None
            /\ UNCHANGED detected_language
       ELSE /\ pc' = "loop"
            /\ result' = None
            /\ detected_language' = detect_language(InCodePoints(elems))
            /\ title' = IF Contains("file03.pdf", path) THEN OntarioTitle
                        ELSE robust_title_extraction(elems)
            /\ font_stats' = FontStatistics(elems)
    /\ ResetLoopLocals

\* a call of extract_outline on the extractor, for a document of docs
BeginOn(docs) ==
    /\ pc = "idle"
    /\ \E path \in Paths, elems \in docs : BeginCall(path, elems)
    /\ UNCHANGED <<op, arg, ret>>

Begin == BeginOn(Documents)

\* where the try block can raise before the heading loop: in detect_language
\* (line 1385), between the assignment of self.detected_language and that of
\* title (lines 1386 to 1396), in the test of the path (line 1398), from there
\* to the assignment of avg_font_size (lines 1401 to 1405), in the
\* computation of max_font_size (line 1406), and between the statistics and
\* the loop (lines 1408 to 1413)
BeginStages == {"language", "title", "override", "statistics", "maximum", "before_loop"}

\* the local title when the exception is raised at stage, robust_title being
\* what robust_title_extraction returned
TitleAtStage(stage, path, robust_title) ==
    IF stage \in {"language", "title"} THEN None
    ELSE IF stage # "override" /\ Contains("file03.pdf", path) THEN OntarioTitle
    ELSE robust_title

\* avg_font_size and max_font_size when the exception is raised at stage,
\* stats being the statistics of the document: neither is bound up to line
\* 1405, avg_font_size alone is at line 1406, both are from line 1408 on
StatsAtStage(stage, stats) ==
    IF stage = "before_loop" THEN stats
    ELSE IF stage = "maximum" THEN [sum |-> stats.sum, n |-> stats.n, max |-> None]
    ELSE None

\* the try block abandoned at one of the stages: self.detected_language is
\* assigned as soon as detect_language has returned, title as soon as
\* robust_title_extraction has, avg_font_size by line 1405 and max_font_size
\* by line 1406
RaisedBeforeLoop(path, language, robust_title, stats) ==
    \E stage \in BeginStages, e \in Faults :
        /\ detected_language' = IF stage = "language" THEN detected_language ELSE language
        /\ title' = TitleAtStage(stage, path, robust_title)
        /\ font_stats' = StatsAtStage(stage, stats)
        /\ fault' = e
        /\ result' = ErrorResult(e)

\* an exception raised before the heading loop, whose locals do not exist yet
BeginFaultOn(docs) ==
    /\ pc = "idle"
    /\ \E path \in Paths, elems \in docs \ {<<>>} :
          /\ pdf_path' = path
          /\ text_elements' = elems
          /\ RaisedBeforeLoop(path, detect_language(InCodePoints(elems)),
                              robust_title_extraction(elems),
                              FontStatistics(elems))
    /\ language_at_call' = detected_language
    /\ pc' = "done"
    /\ ResetLoopLocals
    /\ UNCHANGED <<op, arg, ret>>

BeginFault == BeginFaultOn(Documents)

\* variant of HeadingAdded: the title is not compared
HeadingAddedWithTitle(heading_level, text, page, seen, doc_title) ==
    /\ heading_level # None
    /\ <<Lower(text), page>> \notin seen
    /\ Len(text) >= 3

\* variant of HeadingAdded: seen_headings is not consulted
HeadingAddedIgnoringSeen(heading_level, text, page, seen, doc_title) ==
    /\ heading_level # None
    /\ Lower(text) # Lower(doc_title)
    /\ Len(text) >= 3

\* whether the classified fragment is appended to headings: it has a level,
\* its key is new, its text is not the title and has three characters or more
HeadingAdded(heading_level, text, page, seen, doc_title) ==
    /\ heading_level # None
    /\ <<Lower(text), page>> \notin seen
    /\ Lower(text) # Lower(doc_title)
    /\ Len(text) >= 3

\* one iteration of the heading loop on element, toc being the outcome of the
\* table-of-contents filter, heading_level that of the classification and text
\* the cleaned text
Iteration(element, toc, heading_level, text) ==
    /\ in_toc_section' = toc.in_toc_section
    /\ IF toc.suppressed
       THEN /\ processed' = Append(processed,
                   [suppressed |-> TRUE, inside_before |-> in_toc_section,
                    inside_after |-> toc.in_toc_section, level |-> None])
            /\ UNCHANGED <<seen_headings, headings>>
       ELSE /\ processed' = Append(processed,
                   [suppressed |-> FALSE, inside_before |-> in_toc_section,
                    inside_after |-> toc.in_toc_section, level |-> heading_level])
            /\ seen_headings' =
                   IF HeadingAdded(heading_level, text, element.page, seen_headings, title)
                   THEN seen_headings \cup {<<Lower(text), element.page>>}
                   ELSE seen_headings
            /\ headings' =
                   IF HeadingAdded(heading_level, text, element.page, seen_headings, title)
                   THEN Append(headings, [level |-> heading_level, text |-> text,
                                          page |-> element.page])
                   ELSE headings

\* the iteration on the fragment with 0-based index k
IterationOn(element, text, k) ==
    Iteration(element,
              TocFilter(in_toc_section, text, element.page),
              ensemble_heading_detection(element, SurroundingElements(text_elements, k),
                                         font_stats, detected_language),
              CollapseSpaces(text))

LoopStep ==
    /\ pc = "loop"
    /\ i < Len(text_elements)
    /\ IterationOn(text_elements[i + 1], Strip(text_elements[i + 1].text), i)
    /\ i' = i + 1
    /\ UNCHANGED <<op, arg, ret, pc, pdf_path, text_elements, detected_language, title,
                   font_stats, fault, language_at_call, result>>

\* where an iteration can raise: in the TOC tests, before anything is assigned
\* (lines 1417 to 1420, 1425 and 1426); after they decided to skip the fragment,
\* in_toc_section being set (lines 1422 and 1427); after they let the fragment
\* through, in_toc_section being reset (lines 1432 to 1453); after the key was
\* added to seen_headings (line 1454); after the heading was appended (line
\* 1459)
LoopFaultPoints == {"filter", "skipped", "classify", "append", "added"}

\* whether the iteration comes to the point
ReachesPoint(at, element, toc, heading_level, text) ==
    IF at = "filter" THEN TRUE
    ELSE IF at = "skipped" THEN toc.suppressed
    ELSE IF at = "classify" THEN ~toc.suppressed
    ELSE /\ ~toc.suppressed
         /\ HeadingAdded(heading_level, text, element.page, seen_headings, title)

\* the iteration abandoned at one of the points it comes to
IterationRaised(element, toc, heading_level, text) ==
    \E at \in LoopFaultPoints, e \in Faults :
        /\ ReachesPoint(at, element, toc, heading_level, text)
        /\ in_toc_section' = IF at = "filter" THEN in_toc_section ELSE toc.in_toc_section
        /\ seen_headings' = IF at \in {"append", "added"}
                             THEN seen_headings \cup {<<Lower(text), element.page>>}
                             ELSE seen_headings
        /\ headings' = IF at = "added"
                        THEN Append(headings, [level |-> heading_level, text |-> text,
                                               page |-> element.page])
                        ELSE headings
        /\ fault' = e
        /\ result' = ErrorResult(e)

IterationRaisedOn(element, text, k) ==
    IterationRaised(element,
                    TocFilter(in_toc_section, text, element.page),
                    ensemble_heading_detection(element, SurroundingElements(text_elements, k),
                                               font_stats, detected_language),
                    CollapseSpaces(text))

\* an exception raised in an iteration of the heading loop: the locals are
\* abandoned with what the iteration had assigned up to that point
LoopFault ==
    /\ pc = "loop"
    /\ i < Len(text_elements)
    /\ IterationRaisedOn(text_elements[i + 1], Strip(text_elements[i + 1].text), i)
    /\ pc' = "done"
    /\ UNCHANGED <<op, arg, ret, pdf_path, text_elements, detected_language, title,
                   font_stats, i, processed, language_at_call>>

\* duplicate removal, sort and return
Finish ==
    /\ pc = "loop"
    /\ i = Len(text_elements)
    /\ headings' = SortHeadings(DedupPipeline(headings))
    /\ result' = [title |-> title, outline |-> headings']
    /\ pc' = "done"
    /\ UNCHANGED <<op, arg, ret, pdf_path, text_elements, detected_language, title,
                   font_stats, i, in_toc_section, seen_headings, processed, fault,
                   language_at_call>>

\* where the code after the loop can raise: in remove_exact_duplicates (line
\* 1462), in remove_semantic_duplicates (line 1463), in the sort (line 1466),
\* in the assembly of the result (lines 1468 to 1482)
FinishFaultPoints == {"exact", "semantic", "sort", "result"}

\* the local headings when the exception is raised at the point, deduplicated
\* being what the two duplicate removals leave
HeadingsAtPoint(at, deduplicated) ==
    IF at = "exact" THEN headings
    ELSE IF at = "semantic" THEN remove_exact_duplicates(headings)
    ELSE IF at = "sort" THEN deduplicated
    ELSE SortHeadings(deduplicated)

FinishRaised(deduplicated) ==
    \E at \in FinishFaultPoints, e \in Faults :
        /\ headings' = HeadingsAtPoint(at, deduplicated)
        /\ fault' = e
        /\ result' = ErrorResult(e)

\* an exception raised after the loop: headings is what the statements before
\* the failing one made of it
FinishFault ==
    /\ pc = "loop"
    /\ i = Len(text_elements)
    /\ FinishRaised(DedupPipeline(headings))
    /\ pc' = "done"
    /\ UNCHANGED <<op, arg, ret, pdf_path, text_elements, detected_language, title,
                   font_stats, i, in_toc_section, seen_headings, processed,
                   language_at_call>>

\* the call has returned: its locals are gone, the extractor keeps
\* self.detected_language and is ready for the next call
Return ==
    /\ pc = "done"
    /\ pc' = "idle"
    /\ pdf_path' = ""
    /\ text_elements' = <<>>
    /\ title' = None
    /\ font_stats' = None
    /\ fault' = None
    /\ language_at_call' = detected_language
    /\ result' = None
    /\ ResetLoopLocals
    /\ UNCHANGED <<op, arg, ret, detected_language>>

Next == Begin \/ BeginFault \/ LoopStep \/ LoopFault \/ Finish \/ FinishFault \/ Return

Spec == Init /\ [][Next]_vars

-----------------------------------------------------------------------------
(* SpecCalls: successive calls of extract_outline on one extractor, for     *)
(* short documents in several languages.                                    *)

MaxCallFrags == 2

CallFrags ==
    {Frag("Project Timeline", 14, 1, 850, "Arial-BoldMT"),
     Frag("Plan de Acción", 14, 1, 850, "Arial-BoldMT"),
     Frag("Maße und Gewichte", 14, 1, 850, "Arial-BoldMT")}

CallDocuments == SeqsUpTo(CallFrags, MaxCallFrags)

BeginNextDocument == BeginOn(CallDocuments)

BeginNextDocumentFault == BeginFaultOn(CallDocuments)

NextCalls ==
    \/ BeginNextDocument
    \/ BeginNextDocumentFault
    \/ LoopStep
    \/ LoopFault
    \/ Finish
    \/ FinishFault
    \/ Return

SpecCalls == Init /\ [][NextCalls]_vars

-----------------------------------------------------------------------------
(* SpecOrder: extract_outline on what extract_text_with_formatting returns  *)
(* for short PDF files that repeat a heading text on a page and whose       *)
(* page-by-page extraction may raise: the fallback then puts page-1         *)
(* fragments behind those of the pages read before it, the only fragment    *)
(* lists out of page order the code produces.                               *)

MaxOrderFrags == 3

\* the LTTextLine objects of the pages
OrderLines ==
    {[text |-> "Project Timeline\n", y0 |-> 850,
      chars |-> <<Char(14, "Arial-BoldMT"), Char(14, "Arial-BoldMT")>>],
     [text |-> "PROJECT TIMELINE\n", y0 |-> 900,
      chars |-> <<Char(18, "Arial-BoldMT"), Char(18, "Arial-BoldMT")>>],
     [text |-> "1. Introduction\n", y0 |-> 800,
      chars |-> <<Char(18, "Arial-BoldMT"), Char(18, "Arial-BoldMT")>>],
     [text |-> "Chapter 1 Overview 12\n", y0 |-> 700,
      chars |-> <<Char(10, "Arial"), Char(10, "Arial")>>]}

OrderPageLayouts ==
    SeqsUpTo(OrderLines, 1) \cup {<<l1, l2>> \in OrderLines \X OrderLines : l1.y0 > l2.y0}

\* what extract_text returns when the fallback runs
OrderPlainTexts == {"1. Introduction\nSummary\n", "Summary\n", ""}

OrderPdfs ==
    {pdf \in [pages : SeqsUpTo(OrderPageLayouts, MaxPages), raises_at : 0..(MaxPages + 1),
              plain : OrderPlainTexts, plain_fails : BOOLEAN] :
        /\ pdf.raises_at <= Len(pdf.pages) + 1
        /\ pdf.plain_fails => pdf.plain = ""}

\* the fragment lists of line 1378
OrderDocuments ==
    {d \in {extract_text_with_formatting(pdf) : pdf \in OrderPdfs} : Len(d) <= MaxOrderFrags}

BeginOrder == BeginOn(OrderDocuments)

BeginOrderFault == BeginFaultOn(OrderDocuments)

NextOrder ==
    \/ BeginOrder
    \/ BeginOrderFault
    \/ LoopStep
    \/ LoopFault
    \/ Finish
    \/ FinishFault
    \/ Return

SpecOrder == Init /\ [][NextOrder]_vars

-----------------------------------------------------------------------------
(* SpecOverride: extract_outline on documents that name the Ontario Digital *)
(* Library or file03.pdf in their text, some of them behind plain text that *)
(* pushes fragments past the 50th place.                                    *)

MaxOverrideFrags == 2

OverrideFrags ==
    {Frag("RFP: Request for Proposal", 16, 1, 900, "Arial-BoldMT"),
     Frag("Ontario's", 14, 1, 850, "Arial-BoldMT"),
     Frag("Digital Library Plan", 14, 1, 800, "Arial-BoldMT"),
     Frag("rfp for ontario's digital library", 12, 1, 700, "Arial"),
     Frag("see file03.pdf appendix", 10, 1, 300, "Arial")}

\* the phrase is split over the second and third fragment
SplitPhraseDocument ==
    <<Frag("RFP: Request for Proposal", 16, 1, 900, "Arial-BoldMT"),
      Frag("Ontario's", 14, 1, 850, "Arial-BoldMT"),
      Frag("Digital Library Plan", 14, 1, 800, "Arial-BoldMT")>>

\* with 47 plain fragments in front the phrase ends in the 50th fragment, with
\* 48 in the 51st
OverridePaddingLengths == {0, 47, 48}

OverrideDocuments ==
    SeqsUpTo(OverrideFrags, MaxOverrideFrags)
        \cup {Padding(n) \o SplitPhraseDocument : n \in OverridePaddingLengths}

BeginOverride == BeginOn(OverrideDocuments)

BeginOverrideFault == BeginFaultOn(OverrideDocuments)

NextOverride ==
    \/ BeginOverride
    \/ BeginOverrideFault
    \/ LoopStep
    \/ LoopFault
    \/ Finish
    \/ FinishFault
    \/ Return

SpecOverride == Init /\ [][NextOverride]_vars

-----------------------------------------------------------------------------
(* Properties of title extraction (SpecTitle).                              *)

Range(seq) == {seq[k] : k \in 1..Len(seq)}

\* the strategies, by position, whose output is non-empty and valid
ValidStrategies(elems) ==
    {k \in 1..Len(strategies) :
        LET t == RunStrategy(strategies[k], elems)
        IN  t # "" /\ t # None /\ _is_valid_title(t)}

\* C1: unless the document-specific override applies, the title returned is
\* the output of the first strategy, in priority order, whose output is
\* non-empty and valid; later strategies are consulted when earlier ones fail.
C1_FirstValidStrategyWins ==
    (op = "robust_title_extraction" /\ ~IsOntarioDocument(arg) /\ ValidStrategies(arg) # {})
        => ret = RunStrategy(strategies[Min(ValidStrategies(arg))], arg)

\* C2: robust_title_extraction returns a string that passes _is_valid_title
\* or the placeholder "Untitled Document", never an empty, None or invalid one.
C2_TitleValidOrPlaceholder ==
    op = "robust_title_extraction"
        => \/ ret = UntitledDocument
           \/ (ret # "" /\ ret # None /\ _is_valid_title(ret))

\* a strategy produced a title that was accepted
C2_Witness_StrategyTitle ==
    /\ op = "robust_title_extraction"
    /\ ~IsOntarioDocument(arg)
    /\ ret # UntitledDocument
    /\ _is_valid_title(ret)

-----------------------------------------------------------------------------
(* Properties of the ensemble classifier (SpecClassify).                    *)

Classified == op = "ensemble_heading_detection"

\* the fragment trips a pre-filter, in the words of the filter list: length
\* outside [3,150], more than 3 periods, lower-case ratio above 0.85,
\* y_position below 30, a corruption shape, a not-a-heading shape, a title phrase
TripsPreFilter(element) ==
    LET text == Strip(element.text)
    IN  \/ Len(text) \notin 3..150
        \/ Count(text, ".") >= 4
        \/ 100 * CountLower(text) > 85 * Len(text)
        \/ element.y_position < 30
        \/ MatchesCorruptionPattern(text)
        \/ MatchesSkipPattern(text)
        \/ TitleIndicatorFilter(text)

\* the level the weighted sub-scores alone would give
ScoredLevel(input) ==
    LevelOf(FinalScore(EnsembleScores(input.element, input.surrounding_elements,
                                      input.stats, input.language)))

\* C3: a fragment that trips any pre-filter is classified none, whatever its
\* sub-scores and even when its text holds a main-section keyword.
C3_PreFiltersShortCircuit ==
    (Classified /\ TripsPreFilter(arg.element)) => ret = None

\* a filtered fragment that holds a main-section keyword and whose sub-scores
\* alone would have made it a heading
C3_Witness_FilteredKeywordHeading ==
    /\ Classified
    /\ TripsPreFilter(arg.element)
    /\ HasMainSectionKeyword(Strip(arg.element.text))
    /\ ScoredLevel(arg) # None
    /\ ret = None

\* C4: a fragment that passes every pre-filter and whose lower-cased text
\* holds a main-section keyword is classified H1, whatever its font size,
\* neighbors, language and sub-scores.
C4_HardOverrideIsH1 ==
    (Classified /\ ~TripsPreFilter(arg.element)
        /\ \E keyword \in main_section_keywords : Contains(keyword, Lower(Strip(arg.element.text))))
        => ret = "H1"

\* an overridden fragment whose sub-scores alone would not have given H1
C4_Witness_OverrideBeatsScore ==
    /\ Classified
    /\ ~TripsPreFilter(arg.element)
    /\ HasMainSectionKeyword(Strip(arg.element.text))
    /\ ScoredLevel(arg) # "H1"
    /\ ret = "H1"

\* the final score: the sub-scores weighted with 0.15, font_agnostic with 0.25
WeightedFinal(input) ==
    FinalScore(EnsembleScores(input.element, input.surrounding_elements,
                              input.stats, input.language))

\* level is the one the strict thresholds 0.5, 0.35, 0.2 and 0.1 give to final
LevelByStrictThresholds(final, level) ==
    /\ FloatGreater(final, Hundredths[50]) => level = "H1"
    /\ (~FloatGreater(final, Hundredths[50]) /\ FloatGreater(final, Hundredths[35]))
          => level = "H2"
    /\ (~FloatGreater(final, Hundredths[35]) /\ FloatGreater(final, Hundredths[20]))
          => level = "H3"
    /\ (~FloatGreater(final, Hundredths[20]) /\ FloatGreater(final, Hundredths[10]))
          => level = "H4"
    /\ ~FloatGreater(final, Hundredths[10]) => level = None

\* C5: without pre-filter and override the level is decided by the weighted
\* final score alone, with strict thresholds 0.5, 0.35, 0.2 and 0.1; a score
\* on a threshold falls to the lower level.
C5_LevelByStrictThresholds ==
    (Classified /\ ~TripsPreFilter(arg.element) /\ ~HasMainSectionKeyword(Strip(arg.element.text)))
        => LevelByStrictThresholds(WeightedFinal(arg), ret)

\* a score exactly on the 0.35 threshold classified H3
C5_Witness_OnThreshold ==
    /\ Classified
    /\ ~TripsPreFilter(arg.element)
    /\ ~HasMainSectionKeyword(Strip(arg.element.text))
    /\ WeightedFinal(arg) = Hundredths[35]
    /\ ret = "H3"

-----------------------------------------------------------------------------
(* Properties of the table-of-contents filter (Spec).                       *)

\* fragment k of the document is a trigger: an indicator keyword in its text,
\* or a TOC-entry shape on one of the first six pages
IsTocTrigger(k) ==
    LET text == Strip(text_elements[k].text)
    IN  \/ ContainsAny({"table of contents", "contents", "index", "toc"}, Lower(text))
        \/ (text_elements[k].page <= 6 /\ is_toc_entry(text))

\* the filter is OUTSIDE when fragment k is processed: no fragment came
\* before it, the fragment before it was passed on, or in_toc_section was false
OutsideAt(k) ==
    \/ k = 1
    \/ ~processed[k - 1].suppressed
    \/ ~processed[k].inside_before

\* C6: a fragment processed while the filter is OUTSIDE is suppressed only if
\* it is itself a trigger; once a fragment has been passed on, nothing is
\* suppressed until a trigger occurs.
C6_OutsideSuppressesOnlyTriggers ==
    \A k \in 1..Len(processed) :
        (OutsideAt(k) /\ processed[k].suppressed) => IsTocTrigger(k)

\* after a suppressed region has ended, a TOC-shaped fragment that is no
\* trigger is passed on
C6_Witness_ShapePassedAfterExit ==
    \E k \in 3..Len(processed) :
        /\ processed[k - 2].suppressed
        /\ ~processed[k - 1].suppressed
        /\ is_toc_entry(Strip(text_elements[k].text))
        /\ ~IsTocTrigger(k)
        /\ ~processed[k].suppressed

\* C7: while the filter is INSIDE_TOC a fragment of TOC-entry shape is
\* suppressed and the filter stays INSIDE_TOC; a fragment of any other shape
\* moves it to OUTSIDE and is classified in that same step.
C7_TocExitRule ==
    \A k \in 1..Len(processed) :
        processed[k].inside_before =>
            IF is_toc_entry(Strip(text_elements[k].text))
            THEN processed[k].suppressed /\ processed[k].inside_after
            ELSE /\ ~processed[k].suppressed
                 /\ ~processed[k].inside_after
                 /\ processed[k].level =
                        ensemble_heading_detection(text_elements[k],
                            SurroundingElements(text_elements, k - 1),
                            font_stats, detected_language)

\* a TOC entry skipped inside the section, then the line that ends the section
\* classified as a heading and recorded
C7_Witness_ExitLineIsHeading ==
    \E k \in 3..Len(processed) :
        /\ processed[k - 1].inside_before
        /\ processed[k - 1].suppressed
        /\ processed[k].inside_before
        /\ ~processed[k].suppressed
        /\ processed[k].level # None
        /\ ~in_toc_section
        /\ \E m \in 1..Len(headings) : headings[m].level = processed[k].level

-----------------------------------------------------------------------------
(* Properties of duplicate removal (SpecDedup).                             *)

\* the two headings have word-set similarity above 0.7
Similar(h1, h2) ==
    LET words1 == WordSet(Lower(h1.text))
        words2 == WordSet(Lower(h2.text))
    IN  /\ words1 # {} /\ words2 # {}
        /\ 10 * Cardinality(words1 \cap words2) > 7 * Cardinality(words1 \cup words2)

\* C8: the two-pass pipeline applied to its own output returns that output
\* unchanged, entries and order.
C8_DedupIdempotent ==
    op = "dedup_again" => ret.second = ret.first

\* the first application removed a heading and kept two, the second changed
\* nothing
C8_Witness_SecondPassSame ==
    /\ op = "dedup_again"
    /\ Len(ret.first) = 2
    /\ Len(arg) = 3
    /\ ret.second = ret.first

\* C9 as stated: of any two input headings with similarity above 0.7 the
\* earlier one is in the output of the semantic pass.
C9_EarlierAlwaysRetained ==
    op = "remove_semantic_duplicates" =>
        \A j, k \in 1..Len(arg) :
            (j < k /\ Similar(arg[j], arg[k])) => arg[j] \in Range(ret)

\* C9 amended: of any two input headings with similarity above 0.7 the
\* earlier one is in the output of the semantic pass unless a heading before
\* it that is in the output has similarity above 0.7 to it.
C9_EarlierRetainedUnlessDuplicate ==
    op = "remove_semantic_duplicates" =>
        \A j, k \in 1..Len(arg) :
            (j < k /\ Similar(arg[j], arg[k])) =>
                \/ arg[j] \in Range(ret)
                \/ \E m \in 1..(j - 1) : arg[m] \in Range(ret) /\ Similar(arg[m], arg[j])

\* a chain: the middle heading resembles the first and the last, is dropped
\* because of the first, and the last is kept
C9_Witness_Chain ==
    /\ op = "remove_semantic_duplicates"
    /\ Len(arg) = 3
    /\ Similar(arg[1], arg[2]) /\ Similar(arg[2], arg[3]) /\ ~Similar(arg[1], arg[3])
    /\ ret = <<arg[1], arg[3]>>

RECURSIVE SubsequenceAt(_, _, _)
\* the entries of seq at the positions of P from k on, in order
SubsequenceAt(seq, P, k) ==
    IF k > Len(seq) THEN <<>>
    ELSE (IF k \in P THEN <<seq[k]>> ELSE <<>>) \o SubsequenceAt(seq, P, k + 1)

\* (lower-cased trimmed text, page, level)
DuplicateKey(h) == <<Lower(Strip(h.text)), h.page, h.level>>

\* C10: exact dedup returns the entries that are the first of their key
\* (lower-cased trimmed text, page, level), in their input order.
C10_ExactKeepsFirstPerKey ==
    op = "remove_exact_duplicates" =>
        ret = SubsequenceAt(arg,
                  {k \in 1..Len(arg) :
                      \A j \in 1..(k - 1) : DuplicateKey(arg[j]) # DuplicateKey(arg[k])},
                  1)

\* "Overview" then "overview" on one page at one level leaves the first, and
\* an entry with another key stays behind it
C10_Witness_OverviewTwice ==
    /\ op = "remove_exact_duplicates"
    /\ Len(arg) = 3
    /\ arg[1].text = "Overview" /\ arg[2].text = "overview"
    /\ arg[1].page = arg[2].page /\ arg[1].level = arg[2].level
    /\ ret = <<arg[1], arg[3]>>

\* C21: the output of remove_semantic_duplicates is the input restricted to a
\* set of positions; a position is left out exactly when a kept position
\* before it holds a heading of similarity above 0.7, whatever the pages and
\* levels; no two headings of the output have similarity above 0.7; the first
\* heading of a non-empty input is kept.
C21_SemanticKeepsUnlessSimilarToKept ==
    op = "remove_semantic_duplicates" =>
        /\ \E P \in SUBSET (1..Len(arg)) :
              /\ ret = SubsequenceAt(arg, P, 1)
              /\ \A k \in 1..Len(arg) :
                    k \notin P <=> \E j \in P : j < k /\ Similar(arg[j], arg[k])
        /\ \A m, n \in 1..Len(ret) : m < n => ~Similar(ret[m], ret[n])
        /\ arg # <<>> => (ret # <<>> /\ ret[1] = arg[1])

\* the second heading is dropped because of the first, which is on another
\* page at another level; the third resembles neither and is kept
C21_Witness_DroppedAcrossPages ==
    /\ op = "remove_semantic_duplicates"
    /\ Len(arg) = 3
    /\ arg[1].page # arg[2].page /\ arg[1].level # arg[2].level
    /\ Similar(arg[1], arg[2]) /\ ~Similar(arg[1], arg[3])
    /\ ret = <<arg[1], arg[3]>>

\* every text has a word
AllHaveWords(hs) == \A k \in 1..Len(hs) : WordSet(hs[k].text) # {}

\* C26: on a heading list whose texts all have a word, the semantic pass after
\* the exact pass returns what the semantic pass alone returns.
C26_ExactPassSubsumed ==
    (op = "dedup" /\ AllHaveWords(arg)) => ret = remove_semantic_duplicates(arg)

\* the exact pass removes a heading of the list, and the result is still that
\* of the semantic pass alone, which removes a second one
C26_Witness_ExactRemovesOne ==
    /\ op = "dedup"
    /\ AllHaveWords(arg)
    /\ Len(arg) = 3
    /\ Len(remove_exact_duplicates(arg)) = 2
    /\ Len(ret) = 1
    /\ ret = remove_semantic_duplicates(arg)

\* without the condition on the words: two blank headings with one key
BlankTextsSeparateThePasses ==
    /\ op = "dedup"
    /\ ~AllHaveWords(arg)
    /\ ret # remove_semantic_duplicates(arg)

-----------------------------------------------------------------------------
(* Scenarios and properties of the classifiers (SpecClassify).              *)

\* avg_font_size = 10
AverageIsTen(stats) == stats.sum = 10 * stats.n

\* C12: the classifier returns None for the prose sentence at font size 10,
\* the document average, on page 3 at y_position 400.
C12_ProseSentenceIsNoHeading ==
    (op = "ensemble_heading_detection" /\ arg.element = ProseFragment
        /\ AverageIsTen(arg.stats))
        => ret = None

\* C13: the classifier returns H1 for the bold "1. Introduction" at font size
\* 18, page 1, y_position 900, with document average 10 and language 'en',
\* whatever the neighbor window.
C13_NumberedIntroductionIsH1 ==
    (op = "ensemble_heading_detection"
        /\ arg.element = Frag("1. Introduction", 18, 1, 900, "Arial-BoldMT")
        /\ AverageIsTen(arg.stats) /\ arg.language = "en")
        => ret = "H1"

\* the scenario with a window of two neighbors, one above and one below
C13_Witness_WithNeighbors ==
    /\ op = "ensemble_heading_detection"
    /\ arg.element = Frag("1. Introduction", 18, 1, 900, "Arial-BoldMT")
    /\ AverageIsTen(arg.stats) /\ arg.language = "en"
    /\ Len(arg.surrounding_elements) = 2
    /\ arg.surrounding_elements[1].y_position > 900
    /\ arg.surrounding_elements[2].y_position < 900
    /\ ret = "H1"

\* C19: font_agnostic_heading_detection returns the same value for two
\* fragments that differ only in font_size, with the same neighbor window.
C19_FontAgnosticIgnoresFontSize ==
    op = "font_agnostic_heading_detection"
        => \A f \in ClassifyFontSizes :
              font_agnostic_heading_detection([arg.element EXCEPT !.font_size = f],
                                              arg.surrounding_elements) = ret

\* a positive score for a fragment in the larger font, with neighbors
C19_Witness_LargeFontScored ==
    /\ op = "font_agnostic_heading_detection"
    /\ arg.element.font_size = 18
    /\ arg.surrounding_elements # <<>>
    /\ FloatGreater(ret, FloatZero)
    /\ font_agnostic_heading_detection([arg.element EXCEPT !.font_size = 10],
                                        arg.surrounding_elements) = ret

\* the final score of the input with font size f and document statistics st
\* in place of its own
FinalWithFont(input, f, st) ==
    FinalScore(EnsembleScores([input.element EXCEPT !.font_size = f],
                              input.surrounding_elements, st, input.language))

\* the setting (f, st) comes after the call's own font size and statistics; every
\* call of ClassifyInputs is an initial state, so each pair of settings is
\* compared once, in the state of the earlier one
LaterFontSetting(input, f, st) ==
    \/ f > input.element.font_size
    \/ f = input.element.font_size /\ st.n > input.stats.n

\* |x - y| <= num / den for the natural numbers num and den given by their
\* limbs, the difference taken without rounding
FloatsWithin(x, y, num, den) ==
    LET e == IF x.e < y.e THEN x.e ELSE y.e
        a == BigShl(x.m, x.e - e)
        b == BigShl(y.m, y.e - e)
        diff == IF x.neg # y.neg THEN BigAdd(a, b)
                ELSE IF BigLess(a, b) THEN BigSub(b, a) ELSE BigSub(a, b)
        scaled == BigMul(den, diff)
    IN  IF e <= 0 THEN ~BigLess(BigShl(num, -e), scaled)
        ELSE ~BigLess(num, BigShl(scaled, e))

\* 10^14 and 0.12 * 10^14 + 1
TenToFourteen == BigMul(BigFromInt(10000000), BigFromInt(10000000))

OneVotePlusRounding ==
    BigAdd(BigMul(BigFromInt(12000000), BigFromInt(1000000)), BigFromInt(1))

\* final and the final score of the input under every later font setting are
\* within num / den of each other
WithinOfLaterSettings(input, final, num, den) ==
    \A f \in ClassifyFontSizes, st \in ClassifyStats :
        LaterFontSetting(input, f, st)
            => FloatsWithin(final, FinalWithFont(input, f, st), num, den)

\* the final scores of the call's own font setting and of every later one are
\* within num / den of each other
FontMovesScoreByAtMost(num, den) ==
    (Classified /\ ~TripsPreFilter(arg.element)
        /\ ~HasMainSectionKeyword(Strip(arg.element.text)))
        => WithinOfLaterSettings(arg, WeightedFinal(arg), num, den)

\* C28 as stated: for a fragment that passes the pre-filters and has no
\* main-section keyword, changing the font size or the average and maximum
\* font size of the document moves the final score by at most 0.12.
C28_FontMovesScoreByAtMostOneVote ==
    FontMovesScoreByAtMost(BigFromInt(12), BigFromInt(100))

\* C28, amended: the final scores are floating-point sums, and changing the font
\* size or the document's font statistics moves the final score by at most 0.12
\* up to the rounding of those sums, never by more than 0.12 + 10^-14.
C28_FontMovesScoreByOneVoteUpToRounding ==
    FontMovesScoreByAtMost(OneVotePlusRounding, TenToFourteen)

\* the larger font alone changes the final score and the level with it
C28_Witness_FontFlipsVote ==
    /\ Classified
    /\ ~TripsPreFilter(arg.element)
    /\ ~HasMainSectionKeyword(Strip(arg.element.text))
    /\ arg.element.font_size = 18
    /\ WeightedFinal(arg) # FinalWithFont(arg, 10, arg.stats)
    /\ ret # LevelOf(FinalWithFont(arg, 10, arg.stats))

-----------------------------------------------------------------------------
(* Properties of extract_outline (Spec, SpecCalls).                         *)

\* the call returned normally
Returned == pc = "done" /\ fault = None

\* the fragments an outline entry can come from: same page, same cleaned text
SourceFragments(h) ==
    {f \in Range(text_elements) : f.page = h.page /\ CollapseSpaces(Strip(f.text)) = h.text}

\* C11: the returned outline is sorted by page and, within a page, by the
\* y_position of the fragments the entries come from, smaller first.
C11_OutlineSortedByPageAndPosition ==
    Returned =>
        \A a, b \in 1..Len(result.outline) :
            a < b =>
                /\ result.outline[a].page <= result.outline[b].page
                /\ result.outline[a].page = result.outline[b].page
                      => \A f \in SourceFragments(result.outline[a]),
                            g \in SourceFragments(result.outline[b]) :
                                f.y_position <= g.y_position

\* C14: a call whose extraction yields no fragment returns the placeholder
\* title and an empty outline with no "error" field; no exception is caught,
\* and self.detected_language, the title and the font statistics are not
\* computed and no fragment is classified.
C14_EmptyInputResult ==
    (pc = "done" /\ text_elements = <<>>)
        => /\ result = [title |-> "Untitled Document", outline |-> <<>>]
           /\ fault = None
           /\ detected_language = language_at_call
           /\ title = None
           /\ font_stats = None
           /\ processed = <<>>

\* an empty document processed by an extractor that had detected Spanish
C14_Witness_EmptyAfterSpanish ==
    /\ pc = "done"
    /\ text_elements = <<>>
    /\ result = [title |-> "Untitled Document", outline |-> <<>>]
    /\ language_at_call = "es"

\* C15: when an exception is raised inside extract_outline, the call returns
\* title "Error Processing Document", an empty outline and the message of the
\* exception, whatever had been built before.
C15_FaultGivesErrorResult ==
    (pc = "done" /\ fault # None)
        => result = [title |-> "Error Processing Document", outline |-> <<>>,
                     error |-> fault]

\* an exception after headings had been collected
C15_Witness_FaultAfterHeadings ==
    /\ pc = "done"
    /\ fault # None
    /\ Len(headings) >= 2
    /\ result.outline = <<>>
    /\ result.error = fault

\* C18: while a document is classified, self.detected_language and the font
\* statistics are the ones computed from that document, whatever the earlier
\* calls on the extractor were, and every classification made so far used them.
C18_ProfileOfSameDocument ==
    pc = "loop"
        => /\ detected_language = detect_language(InCodePoints(text_elements))
           /\ font_stats = FontStatistics(text_elements)
           /\ \A k \in 1..Len(processed) :
                 ~processed[k].suppressed
                    => processed[k].level =
                          ensemble_heading_detection(
                              text_elements[k], SurroundingElements(text_elements, k - 1),
                              FontStatistics(text_elements), detect_language(InCodePoints(text_elements)))

\* an English document classified by an extractor that had detected Spanish
C18_Witness_EnglishAfterSpanish ==
    /\ pc = "loop"
    /\ language_at_call = "es"
    /\ detected_language = "en"
    /\ i = Len(text_elements)
    /\ \E k \in 1..Len(processed) : processed[k].level # None

-----------------------------------------------------------------------------
(* Properties of _is_valid_title (SpecValidTitle).                          *)

BoilerplateMarkers ==
    {"copyright", "version", "page", "©", "international", "foundation",
     "all rights reserved", "confidential", "draft", "preliminary"}

\* the four disqualifying checks the title-validity predicate is described by
PassesDisqualifyingChecks(t) ==
    /\ Len(t) >= 8 /\ Len(t) <= 400
    /\ \A marker \in BoilerplateMarkers : ~Contains(marker, Lower(t))
    /\ ~IsDigit(RemoveSpaces(t))
    /\ WordCount(t) >= 2

HasLetter(t) == \E k \in 1..Len(t) : IsAlphaCh(Ch(t, k))

\* C20 as stated: _is_valid_title accepts a string exactly when its length is
\* in 8..400, it holds no boilerplate marker, is not all digits (spaces
\* ignored) and has at least two words, with no further condition.
C20_ValidIffChecksPass ==
    op = "_is_valid_title" => (ret <=> PassesDisqualifyingChecks(arg))

\* C20 amended: _is_valid_title accepts a string exactly when it passes the
\* four disqualifying checks and contains at least one alphabetic character;
\* the title patterns add no condition.
C20_ValidIffChecksPassAndLetter ==
    op = "_is_valid_title" => (ret <=> (PassesDisqualifyingChecks(arg) /\ HasLetter(arg)))

\* a candidate with digits, which none of the title patterns matches, accepted
C20_Witness_AcceptedByDefault ==
    /\ op = "_is_valid_title"
    /\ ret = TRUE
    /\ \E k \in 1..Len(arg) : IsDigitCh(Ch(arg, k))
    /\ ~Contains(":", arg)

-----------------------------------------------------------------------------
(* Properties of detect_language (SpecLanguage).                            *)

\* the languages in the order they are tried, each with its characters
LanguageOrder ==
    <<[code |-> "ja", chars |-> CodesOf(HIRAGANA)],
      [code |-> "zh", chars |-> CodesOf(HANZI)],
      [code |-> "es", chars |-> CodesOf(SPANISH)],
      [code |-> "fr", chars |-> CodesOf(FRENCH)],
      [code |-> "de", chars |-> CodesOf(GERMAN)],
      [code |-> "ru", chars |-> CodesOf(CYRILLIC)],
      [code |-> "el", chars |-> CodesOf(GREEK)],
      [code |-> "ar", chars |-> CodesOf(ARABIC)]>>

\* the lower-cased characters of the first 50 fragments of elems
SampleChars(elems) ==
    UNION {CodesOf(LowerCodes(elems[k].text)) : k \in 1..Min2(50, Len(elems))}

\* the languages whose characters occur in the sample, by position in the order
MatchingLanguages(elems) ==
    LET sample == SampleChars(elems)
    IN  {n \in 1..Len(LanguageOrder) : LanguageOrder[n].chars \cap sample # {}}

\* C17: detect_language returns the first language of the order ja, zh, es,
\* fr, de, ru, el, ar one of whose characters occurs in the lower-cased text
\* of the first 50 fragments, and 'en' when there is none.
C17_FirstMatchingLanguage ==
    op = "detect_language"
        => ret = IF MatchingLanguages(arg) = {} THEN "en"
                 ELSE LanguageOrder[Min(MatchingLanguages(arg))].code

\* the 50th fragment is Russian in capitals, the 51st is German: the result
\* is 'ru'
C17_Witness_FiftiethCountsNextDoesNot ==
    /\ op = "detect_language"
    /\ Len(arg) = 51
    /\ arg[50].text = <<1055, 1056, 1048, 1042, 1045, 1058>>
    /\ arg[51].text = CodePoints("Maße")
    /\ ret = "ru"

\* a word with a letter of the Spanish and the French table before hiragana
\* beyond the 50th fragment gives 'es'
SpanishBeforeFrench ==
    /\ op = "detect_language"
    /\ Len(arg) = 51
    /\ arg[50].text = CodePoints("Résumé")
    /\ arg[51].text = <<12371, 12435, 12395, 12385, 12399>>
    /\ ret = "es"

\* German before Russian, Russian before Greek, Greek before Arabic
GermanRussianGreekArabic(first, second, language) ==
    /\ op = "detect_language"
    /\ Len(arg) = 2
    /\ LanguageOrder[first].chars \cap CodesOf(LowerCodes(arg[1].text)) # {}
    /\ LanguageOrder[second].chars \cap CodesOf(LowerCodes(arg[2].text)) # {}
    /\ MatchingLanguages(arg) = {first, second}
    /\ ret = language

RussianAfterGerman == GermanRussianGreekArabic(6, 5, "de")

GreekAfterRussian == GermanRussianGreekArabic(7, 6, "ru")

ArabicAfterGreek == GermanRussianGreekArabic(8, 7, "el")

\* Arabic alone gives 'ar'
ArabicDetected ==
    /\ op = "detect_language"
    /\ MatchingLanguages(arg) = {8}
    /\ ret = "ar"

\* a capital sigma lower-cased to the final sigma, which is not in the Greek
\* table, gives 'en'
FinalSigmaGivesEnglish ==
    /\ op = "detect_language"
    /\ Len(arg) = 1
    /\ arg[1].text = <<65, 931>>
    /\ ret = "en"

\* the characters of the sample outside ASCII
NonAsciiSampleChars(elems) == {c \in SampleChars(elems) : c > 127}

\* C30: detect_language returns 'de' only for a sample with the character
\* sharp s and no character of the Japanese, Chinese, Spanish or French
\* table; a sample whose characters outside ASCII are all among a-, o- and
\* u-umlaut gives 'es' when u-umlaut occurs and 'fr' otherwise, never 'de'.
C30_GermanOnlyBySharpS ==
    op = "detect_language" =>
        LET sample == SampleChars(arg)
            outside == {c \in sample : c > 127}
        IN  /\ ret = "de" =>
                  /\ 223 \in sample
                  /\ \A n \in 1..4 : LanguageOrder[n].chars \cap sample = {}
            /\ (outside # {} /\ outside \subseteq {228, 246, 252})
                  => /\ ret # "de"
                     /\ ret = IF 252 \in sample THEN "es" ELSE "fr"

\* a sample whose only characters outside ASCII are a-umlaut and o-umlaut
\* gives 'fr'
C30_Witness_UmlautsGiveFrench ==
    /\ op = "detect_language"
    /\ NonAsciiSampleChars(arg) = {228, 246}
    /\ ret = "fr"

\* 'de' is returned for a sample with sharp s
GermanDetectedBySharpS ==
    /\ op = "detect_language"
    /\ 223 \in SampleChars(arg)
    /\ ret = "de"

\* a capital U-umlaut alone gives 'es'
CapitalUmlautGivesSpanish ==
    /\ op = "detect_language"
    /\ NonAsciiSampleChars(arg) = {252}
    /\ ret = "es"

-----------------------------------------------------------------------------
(* Properties of extract_text_with_formatting (SpecExtract).                *)

\* an element as the fallback fabricates it
IsDegraded(element) ==
    element.font_size = 12 /\ element.page = 1 /\ element.is_bold = FALSE

\* C16: whenever the page-by-page extraction raises, the list returned is the
\* plain-text one: every element has font_size 12.0, page 1 and is_bold False
\* and the y_positions decrease strictly along the list; it is empty when the
\* fallback fails too.
C16_FallbackListIsDegraded ==
    (op = "extract_text_with_formatting" /\ arg.raises_at # 0)
        => IF arg.plain_fails THEN ret = <<>>
           ELSE /\ \A k \in 1..Len(ret) : IsDegraded(ret[k])
                /\ \A k \in 1..(Len(ret) - 1) : ret[k].y_position > ret[k + 1].y_position

-----------------------------------------------------------------------------
(* Properties of the heading loop of extract_outline (Spec, SpecOrder).     *)

\* the text of fragment k as the loop records it: trimmed, runs of white
\* space collapsed
CleanText(k) == CollapseSpaces(Strip(text_elements[k].text))

\* C22: no entry of the heading list, and no entry of the outline returned,
\* has a text equal to the title when case is ignored: a fragment classified
\* as a heading whose text is the title is not added.
C22_TitleNotInOutline ==
    /\ pc = "loop" =>
          \A k \in 1..Len(headings) : Lower(headings[k].text) # Lower(title)
    /\ pc = "done" =>
          \A k \in 1..Len(result.outline) :
              Lower(result.outline[k].text) # Lower(result.title)

\* the fragment that gives the title was classified as a heading and is not
\* in the outline, which has another entry
C22_Witness_TitleFragmentClassified ==
    /\ Returned
    /\ Len(result.outline) >= 1
    /\ \E k \in 1..Len(processed) :
          /\ processed[k].level # None
          /\ Lower(CleanText(k)) = Lower(result.title)

\* an indicator keyword occurs in the text
HasTocKeyword(text) ==
    \E keyword \in {"table of contents", "contents", "index", "toc"} :
        Contains(keyword, Lower(text))

\* the text matches one of the four TOC-entry patterns
MatchesTocShape(text) ==
    \/ MatchDotLeader(text)
    \/ EndsWithSpaceNumber(text, 1)
    \/ MatchNumberedTocEntry(text)
    \/ MatchTitleCaseTocEntry(text)

\* C23: after a fragment is processed in_toc_section is true exactly when the
\* fragment was suppressed; so a TOC-shaped fragment without keyword on a page
\* after the sixth is suppressed exactly when the fragment before it was.
C23_FlagIffSuppressed ==
    /\ \A k \in 1..Len(processed) : processed[k].inside_after = processed[k].suppressed
    /\ (pc = "loop" /\ i > 0) => in_toc_section = processed[i].suppressed
    /\ \A k \in 1..Len(processed) :
          LET text == Strip(text_elements[k].text)
          IN  (text_elements[k].page > 6 /\ MatchesTocShape(text) /\ ~HasTocKeyword(text))
                  => (processed[k].suppressed <=> (k > 1 /\ processed[k - 1].suppressed))

\* a TOC-shaped fragment of a late page suppressed behind a suppressed
\* fragment, and the fragment after it passed on
C23_Witness_ShapeFollowsSuppressed ==
    \E k \in 2..(Len(processed) - 1) :
        /\ text_elements[k].page > 6
        /\ MatchesTocShape(Strip(text_elements[k].text))
        /\ ~HasTocKeyword(Strip(text_elements[k].text))
        /\ processed[k - 1].suppressed
        /\ processed[k].suppressed
        /\ ~processed[k + 1].suppressed
        /\ pc = "loop" /\ i = k + 1 /\ ~in_toc_section

\* C24: on the first six pages a fragment is suppressed exactly when its text
\* has a TOC keyword or a TOC-entry shape, whatever in_toc_section was; a
\* fragment with a keyword is suppressed on every page; in_toc_section makes
\* a difference only for a TOC-shaped fragment without keyword on a later page.
C24_EarlyPagesIgnoreState ==
    \A k \in 1..Len(processed) :
        LET text == Strip(text_elements[k].text)
            page == text_elements[k].page
            keyword == HasTocKeyword(text)
            shape == MatchesTocShape(text)
        IN  /\ page <= 6 => (processed[k].suppressed <=> (keyword \/ shape))
            /\ keyword => processed[k].suppressed
            /\ (page > 6 /\ ~keyword /\ ~shape) => ~processed[k].suppressed
            /\ (page > 6 /\ ~keyword /\ shape)
                  => (processed[k].suppressed <=> processed[k].inside_before)

\* on an early page: a shaped fragment suppressed while in_toc_section was
\* false, then a fragment of no shape passed on while it was true; on a late
\* page a keyword suppressed while it was false
C24_Witness_BothStatesEarlyPage ==
    \E j, k, m \in 1..Len(processed) :
        /\ text_elements[j].page <= 6 /\ ~processed[j].inside_before
        /\ processed[j].suppressed /\ ~HasTocKeyword(Strip(text_elements[j].text))
        /\ text_elements[k].page <= 6 /\ processed[k].inside_before
        /\ ~processed[k].suppressed
        /\ text_elements[m].page > 6 /\ ~processed[m].inside_before
        /\ HasTocKeyword(Strip(text_elements[m].text)) /\ processed[m].suppressed

\* C25: the heading list of the loop never holds two entries with the same
\* lower-cased text and page, whatever their levels, so that
\* remove_exact_duplicates returns the list it is given.
C25_NoRepeatedKeyBeforeDedup ==
    pc = "loop" =>
        /\ \A a, b \in 1..Len(headings) :
              a < b => <<Lower(headings[a].text), headings[a].page>>
                           # <<Lower(headings[b].text), headings[b].page>>
        /\ remove_exact_duplicates(headings) = headings

\* at the end of the loop: two fragments of one page with the same text up to
\* case were classified at different levels, and the list holds the first
C25_Witness_SecondLevelDiscarded ==
    /\ pc = "loop"
    /\ i = Len(text_elements)
    /\ \E j, k \in 1..Len(processed) :
          /\ j < k
          /\ text_elements[j].page = text_elements[k].page
          /\ Lower(CleanText(j)) = Lower(CleanText(k))
          /\ processed[j].level # None /\ processed[k].level # None
          /\ processed[j].level # processed[k].level
          /\ [level |-> processed[j].level, text |-> CleanText(j),
               page |-> text_elements[j].page] \in Range(headings)

RECURSIVE ByPageInGivenOrder(_, _)
\* the entries of hs page after page, those of one page in the order of hs
ByPageInGivenOrder(hs, pages) ==
    IF pages = {} THEN <<>>
    ELSE LET first == Min(pages)
         IN  SelectSeq(hs, LAMBDA h : h.page = first)
                 \o ByPageInGivenOrder(hs, pages \ {first})

\* the entry fragment k gives when it is added
Candidate(k) ==
    [level |-> processed[k].level, text |-> CleanText(k), page |-> text_elements[k].page]

\* C27: the outline returned holds the headings left by duplicate removal,
\* page after page and within a page in the order they had; when the pages
\* of the fragments do not decrease it is that list unchanged, a selection of
\* the classified fragments in input order.
C27_OutlineInEncounterOrder ==
    [][(pc = "loop" /\ pc' = "done" /\ fault' = None) =>
          LET kept == DedupPipeline(headings)
          IN  /\ result'.outline
                    = ByPageInGivenOrder(kept, {kept[k].page : k \in 1..Len(kept)})
              /\ (\A k \in 1..(Len(text_elements) - 1) :
                        text_elements[k].page <= text_elements[k + 1].page)
                    => /\ result'.outline = kept
                       /\ \E P \in SUBSET {k \in 1..Len(processed) :
                                                processed[k].level # None} :
                             result'.outline
                                 = SubsequenceAt([k \in 1..Len(processed) |-> Candidate(k)],
                                                 P, 1)]_vars

\* two entries of one page in input order, the first from the fragment with
\* the larger y_position
C27_Witness_SamePageInputOrder ==
    /\ Returned
    /\ Len(text_elements) = 3
    /\ \A k \in 1..2 : text_elements[k].page <= text_elements[k + 1].page
    /\ Len(result.outline) = 2
    /\ result.outline[1].page = result.outline[2].page
    /\ \E j, k \in 1..3 :
          /\ j < k
          /\ result.outline = <<Candidate(j), Candidate(k)>>
          /\ text_elements[j].y_position > text_elements[k].y_position

\* a heading of the fallback, on page 1, placed by the sort before the
\* heading of page 2 that was collected before it
FallbackHeadingSortedFirst ==
    /\ Returned
    /\ \E j, k \in 1..Len(text_elements) :
          /\ j < k
          /\ text_elements[j].page > text_elements[k].page
          /\ text_elements[k].font_name = "default"
          /\ result.outline = <<Candidate(k), Candidate(j)>>

-----------------------------------------------------------------------------
(* Properties of the title override (SpecOverride).                         *)

\* the content test of the override: both phrases in the text of the first 50
\* fragments joined by spaces, or file03.pdf in the printed fragment list
NamesOntarioDocument(elems) ==
    LET sample == Join([k \in 1..Min2(50, Len(elems)) |-> elems[k].text])
    IN  \/ Contains("Ontario's Digital Library", sample) /\ Contains("RFP", sample)
        \/ \E k \in 1..Len(elems) :
              Contains("file03.pdf", elems[k].text) \/ Contains("file03.pdf", elems[k].font_name)

\* C29: robust_title_extraction returns the fixed title when the content test
\* holds and the result of the strategy loop otherwise; the title of
\* extract_outline is the fixed title when the path contains file03.pdf and
\* the title robust_title_extraction returns otherwise.
C29_TitleOverride ==
    (pc = "loop" \/ (Returned /\ text_elements # <<>>)) =>
        /\ robust_title_extraction(text_elements)
              = IF NamesOntarioDocument(text_elements) THEN OntarioTitle
                ELSE StrategyLoop(text_elements, 1)
        /\ title = IF Contains("file03.pdf", pdf_path) THEN OntarioTitle
                   ELSE robust_title_extraction(text_elements)
        /\ Returned => result.title = title

\* the phrase runs over two fragments and ends in the 50th: the fixed title is
\* returned for a path without file03.pdf, where the strategy loop would have
\* given another title
C29_Witness_PhraseAcrossFragments ==
    /\ Returned
    /\ Len(text_elements) = 50
    /\ ~Contains("file03.pdf", pdf_path)
    /\ \A k \in 1..50 : ~Contains("Digital Library", text_elements[k].text)
                              \/ ~Contains("Ontario", text_elements[k].text)
    /\ StrategyLoop(text_elements, 1) # OntarioTitle
    /\ result.title = OntarioTitle

\* one fragment more in front: the phrase ends in the 51st fragment and the
\* title comes from the strategy loop
OverrideStopsAtFiftyFragments ==
    /\ Returned
    /\ Len(text_elements) = 51
    /\ ~Contains("file03.pdf", pdf_path)
    /\ result.title = StrategyLoop(text_elements, 1)
    /\ result.title # OntarioTitle

====
